---- MODULE Spec2Model ----
(***************************************************************************)
(* State-machine model of the resilient automation layer of                *)
(* selenium-automation: the CircuitBreaker, the SessionManager, the        *)
(* retrying record submission of TerakoyaClient and the run_terakoya       *)
(* main() loop.                                                            *)
(*                                                                         *)
(* Time is an integer clock `now`.  A handler reads the clock at one       *)
(* instant; the wrapped function of CircuitBreaker.call takes `duration`   *)
(* clock units, so _on_failure reads a later clock than the entry check.   *)
(***************************************************************************)
EXTENDS Integers, Sequences, FiniteSets, TLC

VARIABLES
    now,        \* datetime.now()
    cb,         \* a CircuitBreaker instance (fields of __init__)
    cbLast,     \* observation of the last CircuitBreaker operation
    streak,     \* consecutive counted failures since CLOSED with count 0
    opened_at,  \* when the circuit left CLOSED for OPEN, None while CLOSED
    session,    \* a SessionManager instance (_state, _login_time, _last_activity)
    sessLast,   \* observation of the SessionManager operation just made
    retry,      \* frame of add_invoice_item_with_retry (locals and result)
    attemptLast,\* what the last add_invoice_item call did
    modal_open, \* target page: the invoice-item modal is open
    touched,    \* records for which a submission browser operation was issued
    pc,         \* position of main() in run_terakoya.py
    args,       \* command line and environment of the run
    lessons,    \* main: lessons
    existing_invoices,  \* main: existing_invoices
    to_add,     \* main: to_add
    idx,        \* main: idx of the submission loop
    added_lessons,      \* main: added_lessons
    failed_lessons,     \* main: failed_lessons, pairs <<lesson, message>>
    submitted,  \* records passed to add_invoice_item_with_retry
    browser,    \* "none", "open", "partial" or "closed"
    report,     \* the execution report written, or NoReport
    exit_code,  \* value main() returned, None while it runs
    clientLast, \* observation of the TerakoyaClient operation just made
    extraction, \* card extraction of get_lessons_for_month: inputs and result
    result,     \* the Result made last and the operation that made it
    summary,    \* the counts display_summary printed, or NoSummary
    form        \* a choice made in the invoice-item form: inputs and outcome

cbVars == <<cb, cbLast, streak, opened_at>>
sessVars == <<session, sessLast>>
retryVars == <<retry, attemptLast, modal_open, touched>>
mainVars == <<pc, args, lessons, existing_invoices, to_add, idx,
              added_lessons, failed_lessons, submitted, browser, report,
              exit_code, extraction, result, summary, form>>
vars == <<now, cb, cbLast, streak, opened_at, session, sessLast,
          retry, attemptLast, modal_open, touched,
          pc, args, lessons, existing_invoices, to_add, idx,
          added_lessons, failed_lessons, submitted, browser, report,
          exit_code, clientLast, extraction, result, summary, form>>

(***************************************************************************)
(* Bounds of the model.                                                    *)
(***************************************************************************)
MaxThreshold == 3
MaxTimeout == 2
MaxDuration == 1
MaxClock == 6
MaxSessionClock == 32
MaxRetries == 6
MaxLessons == 4
MaxRunTicks == 1
MaxCards == 3
MaxValue == 3

None == -1

(***************************************************************************)
(* resilience/circuit_breaker.py                                           *)
(***************************************************************************)
CircuitState == {"CLOSED", "OPEN", "HALF_OPEN"}

CircuitBreaker(failure_threshold, timeout) ==
    [ failure_threshold |-> failure_threshold,
      timeout           |-> timeout,
      failure_count     |-> 0,
      last_failure_time |-> None,
      state             |-> "CLOSED" ]

should_attempt_reset_flipped(b, t) ==
    IF b.last_failure_time = None
    THEN TRUE
    ELSE (t - b.last_failure_time) < b.timeout

should_attempt_reset(b, t) ==
    IF b.last_failure_time = None
    THEN TRUE
    ELSE (t - b.last_failure_time) > b.timeout

on_success_keeps_count(b) ==
    [b EXCEPT !.state = IF b.state = "HALF_OPEN" THEN "CLOSED" ELSE @]

on_success_keeps_state(b) ==
    [b EXCEPT !.failure_count = 0]

on_success(b) ==
    [b EXCEPT !.state = IF b.state = "HALF_OPEN" THEN "CLOSED" ELSE @,
              !.failure_count = 0]

on_failure_keeps_first_time(b, t) ==
    [b EXCEPT !.failure_count = b.failure_count + 1,
              !.last_failure_time = IF b.state = "HALF_OPEN" THEN @ ELSE t,
              !.state = IF b.failure_count + 1 >= b.failure_threshold
                        THEN "OPEN" ELSE @]

on_failure_strict(b, t) ==
    [b EXCEPT !.failure_count = b.failure_count + 1,
              !.last_failure_time = t,
              !.state = IF b.failure_count + 1 > b.failure_threshold
                        THEN "OPEN" ELSE @]

on_failure(b, t) ==
    [b EXCEPT !.failure_count = b.failure_count + 1,
              !.last_failure_time = t,
              !.state = IF b.failure_count + 1 >= b.failure_threshold
                        THEN "OPEN" ELSE @]

reset_keeps_count(b) ==
    [b EXCEPT !.state = "CLOSED",
              !.last_failure_time = None]

reset_keeps_failure_time(b) ==
    [b EXCEPT !.state = "CLOSED",
              !.failure_count = 0]

reset(b) ==
    [b EXCEPT !.state = "CLOSED",
              !.failure_count = 0,
              !.last_failure_time = None]

\* What the wrapped function does when it is invoked: it returns a value,
\* raises an exception of the configured category (expected_exception), or
\* raises an exception outside it; it takes `duration` clock units.
FnOutcome == {"returns", "raises_expected", "raises_other"}
FnValue == {"v1", "v2"}
NoValue == "no_value"

FnBehaviour ==
    [outcome : FnOutcome, value : FnValue, duration : 0..MaxDuration]

\* CircuitBreaker.call(func) entered at clock t: the breaker after the call,
\* what the call raised or returned, how often func was invoked and the clock
\* when the call ends.
call(b, t, fn) ==
    LET attempt == b.state = "OPEN" /\ should_attempt_reset(b, t)
        entered == IF attempt THEN [b EXCEPT !.state = "HALF_OPEN"] ELSE b
        t1 == t + fn.duration
    IN  IF b.state = "OPEN" /\ ~should_attempt_reset(b, t)
        THEN [ cb |-> b, raised |-> "CircuitBreakerOpenError",
               returned |-> NoValue, fn_calls |-> 0, now |-> t ]
        ELSE CASE fn.outcome = "returns" ->
                    [ cb |-> on_success(entered), raised |-> "none",
                      returned |-> fn.value, fn_calls |-> 1, now |-> t1 ]
               [] fn.outcome = "raises_expected" ->
                    [ cb |-> on_failure(entered, t1), raised |-> "expected",
                      returned |-> NoValue, fn_calls |-> 1, now |-> t1 ]
               [] fn.outcome = "raises_other" ->
                    [ cb |-> entered, raised |-> "other",
                      returned |-> NoValue, fn_calls |-> 1, now |-> t1 ]

NoOp == [ op |-> "none", fn |-> "none", fn_value |-> NoValue,
          raised |-> "none", returned |-> NoValue, fn_calls |-> 0,
          pre |-> CircuitBreaker(1, 1), pre_now |-> 0, post_now |-> 0,
          reset_from |-> "none" ]

\* The run of consecutive counted failures that started at CLOSED with
\* failure_count 0: one longer after a counted failure, 0 again whenever the
\* breaker is CLOSED with failure_count 0, and broken (None) otherwise.
NextStreak(s, r) ==
    IF r.raised = "expected" /\ s /= None THEN s + 1
    ELSE IF r.cb.state = "CLOSED" /\ r.cb.failure_count = 0 THEN 0
    ELSE None

\* The time the circuit went from CLOSED to OPEN, kept while it is OPEN or
\* HALF_OPEN.
NextOpenedAt(o, pre, r) ==
    IF r.cb.state = "CLOSED" THEN None
    ELSE IF pre.state = "CLOSED" THEN r.cb.last_failure_time
    ELSE o

(***************************************************************************)
(* automation/terakoya/session.py                                          *)
(***************************************************************************)
SessionState == {"NOT_LOGGED_IN", "LOGGED_IN", "EXPIRED", "UNKNOWN"}

\* SESSION_TIMEOUT = timedelta(minutes=30); the session clock counts minutes.
SESSION_TIMEOUT == 30

SessionManager ==
    [ state |-> "NOT_LOGGED_IN", login_time |-> None, last_activity |-> None ]

is_logged_in(s) == s.state = "LOGGED_IN"

mark_logged_in(s, t) ==
    [ state |-> "LOGGED_IN", login_time |-> t, last_activity |-> t ]

mark_logged_out(s) ==
    [ state |-> "NOT_LOGGED_IN", login_time |-> None, last_activity |-> None ]

update_activity(s, t) == [s EXCEPT !.last_activity = t]

is_session_expired_early(s, t) ==
    IF ~is_logged_in(s) \/ s.last_activity = None
    THEN TRUE
    ELSE (t - s.last_activity) >= SESSION_TIMEOUT

is_session_expired(s, t) ==
    IF ~is_logged_in(s) \/ s.last_activity = None
    THEN TRUE
    ELSE (t - s.last_activity) > SESSION_TIMEOUT

\* What browser.find_element for the login form does when is_session_valid
\* gets that far: the form is found, it is not found, or the lookup raises.
PageCheck == {"login_form", "no_login_form", "raises"}

\* Result.success(value, message) / Result.failure(message) with the session
\* the method leaves behind.
SessionResult(s, ok, value, message) ==
    [ session |-> s, ok |-> ok, value |-> value, message |-> message ]

\* the state-based check without the call of update_activity()
is_session_valid_keeps_activity(s, t, page) ==
    IF is_session_expired(s, t)
    THEN SessionResult([s EXCEPT !.state = "EXPIRED"], TRUE, FALSE,
                       "Session expired (timeout)")
    ELSE SessionResult(s, TRUE, TRUE, "Session valid (based on state)")

is_session_valid(s, t, page) ==
    IF is_session_expired(s, t)
    THEN SessionResult([s EXCEPT !.state = "EXPIRED"], TRUE, FALSE,
                       "Session expired (timeout)")
    ELSE IF is_logged_in(s) /\ ~is_session_expired(s, t)
    THEN SessionResult(update_activity(s, t), TRUE, TRUE,
                       "Session valid (based on state)")
    ELSE CASE page = "login_form" ->
                SessionResult([s EXCEPT !.state = "NOT_LOGGED_IN"], TRUE, FALSE,
                              "Session invalid (login form found)")
           [] page = "no_login_form" ->
                SessionResult([s EXCEPT !.state = "UNKNOWN"], TRUE, FALSE,
                              "Session state unknown")
           [] page = "raises" ->
                SessionResult(s, FALSE, FALSE,
                              "Failed to check session validity")

require_login_keeps_state(s, t, page) ==
    IF ~is_logged_in(s)
    THEN SessionResult(s, FALSE, FALSE, "Not logged in")
    ELSE IF is_session_expired(s, t)
    THEN SessionResult(s, FALSE, FALSE, "Session invalid, login required")
    ELSE SessionResult(update_activity(s, t), TRUE, FALSE, "Login valid")

require_login(s, t, page) ==
    IF ~is_logged_in(s)
    THEN SessionResult(s, FALSE, FALSE, "Not logged in")
    ELSE IF is_session_expired(s, t)
    THEN SessionResult([s EXCEPT !.state = "EXPIRED"], FALSE, FALSE,
                       "Session expired")
    ELSE LET validity == is_session_valid(s, t, page)
         IN  IF validity.ok /\ validity.value
             THEN SessionResult(validity.session, TRUE, FALSE, "Login valid")
             ELSE SessionResult(validity.session, FALSE, FALSE,
                                "Session invalid, login required")

SessionObs(op, r, pre, t, page) ==
    [ op |-> op, ok |-> r.ok, value |-> r.value, message |-> r.message,
      pre |-> pre, pre_now |-> t, page |-> page ]

NoSessionOp ==
    SessionObs("none", SessionResult(SessionManager, TRUE, FALSE, ""),
               SessionManager, 0, "none")

\* The clock of the session specification advances by a minute or by a whole
\* inactivity window.
ClockSteps == {1, SESSION_TIMEOUT}

(***************************************************************************)
(* run_terakoya.py main(): the locals of a run before its first step.       *)
(***************************************************************************)
\* display_summary: the four counts it prints
display_summary(all, existing, new) ==
    [ shown |-> TRUE, total_lessons |-> Len(all),
      already_invoiced |-> Len(existing), to_be_added |-> Len(new),
      skipped |-> Len(all) - Len(new) - Len(existing) ]

\* no choice made in the form yet
NoForm ==
    [ op |-> "none", options |-> <<>>, student_name |-> <<>>,
      category |-> <<>>, target_option |-> 0, auto_date |-> FALSE ]

NoSummary ==
    [ shown |-> FALSE, total_lessons |-> 0, already_invoiced |-> 0,
      to_be_added |-> 0, skipped |-> 0 ]

NoReport == [ saved |-> FALSE, total_lessons |-> 0, existing_invoices |-> 0,
              added |-> <<>>, failed |-> <<>>, submitted |-> FALSE,
              dry_run |-> FALSE ]

\* --month: a text that splits into two integers or does not
TargetMonth(parses, year, month) ==
    [ parses |-> parses, year |-> year, month |-> month ]

TargetMonths ==
    { TargetMonth(TRUE, 2025, 10), TargetMonth(TRUE, 2025, 13),
      TargetMonth(TRUE, 2019, 12), TargetMonth(FALSE, 0, 0) }

\* parse_target_month: TRUE when it returns (year, month), FALSE when it
\* raises ValueError
parse_target_month(m) ==
    /\ m.parses
    /\ 1 <= m.month /\ m.month <= 12
    /\ ~(m.year < 2020 \/ m.year > 2100)

Args == [ month : TargetMonths, has_password : BOOLEAN, dry_run : BOOLEAN ]

\* What a TerakoyaClient operation returned and did: the Result, whether a
\* browser navigation was issued, and the session and clock it was called
\* with.
ClientObs(op, ok, message, navigated, pre, t, screenshot) ==
    [ op |-> op, ok |-> ok, message |-> message, navigated |-> navigated,
      pre |-> pre, pre_now |-> t, screenshot |-> screenshot ]

NoClientOp == ClientObs("none", TRUE, "", FALSE, SessionManager, 0, "none")

MainStart(a) ==
    /\ pc = "start"
    /\ clientLast = NoClientOp
    /\ args = a
    /\ lessons = <<>>
    /\ existing_invoices = <<>>
    /\ to_add = <<>>
    /\ idx = 0
    /\ added_lessons = <<>>
    /\ failed_lessons = <<>>
    /\ submitted = {}
    /\ browser = "none"
    /\ report = NoReport
    /\ exit_code = None

MainIdle ==
    MainStart([month |-> TargetMonth(TRUE, 2025, 10), has_password |-> TRUE,
               dry_run |-> FALSE])

(***************************************************************************)
(* Lesson records (models/lesson.py LessonData).  A category is the        *)
(* sequence of the words of its label, so that Python's `key in category`  *)
(* is "key occurs as a contiguous part of category".                       *)
(*   <<"senzoku", "lesson">>                 the dedicated lesson          *)
(*   <<"senzoku", "lesson", "zengo_taiou">>  dedicated lesson, before/after*)
(*   <<"senzoku", "lesson", "cancel">>       dedicated lesson cancelled    *)
(*   <<"tanpatsu", "lesson">>                the spot lesson               *)
(***************************************************************************)
Lesson(id, date, student_id, student_name, duration, category) ==
    [ id |-> id, date |-> date, student_id |-> student_id,
      student_name |-> student_name, status |-> "completed",
      duration |-> duration, category |-> category ]

CatDedicated == <<"senzoku", "lesson">>
CatDedicatedAround == <<"senzoku", "lesson", "zengo_taiou">>
CatSpot == <<"tanpatsu", "lesson">>

\* key in category
Contains(key, category) ==
    \E i \in 0..(Len(category) - Len(key)) :
        \A j \in 1..Len(key) : category[i + j] = key[j]

category_uses_auto_date(category) ==
    IF category = <<>>
    THEN FALSE
    ELSE \E key \in {CatDedicated, CatDedicatedAround} : Contains(key, category)

\* validation/lesson_validator.py
VALID_STATUSES == {"completed", "pending", "cancelled"}
MIN_DURATION == 15
WellFormedDates == {"2025-10-01", "2025-10-15", "2025-10-20", "2025-10-28"}

lesson_is_valid(l) ==
    /\ l.id /= ""
    /\ l.date \in WellFormedDates
    /\ l.student_id /= ""
    /\ l.student_name /= ""
    /\ l.status \in VALID_STATUSES
    /\ l.duration > 0
    /\ l.duration >= MIN_DURATION
    /\ l.category /= <<>>

(***************************************************************************)
(* models/result.py                                                        *)
(***************************************************************************)
\* An exception is its type and the text str(e) gives; NoError is None.
Exception(type, text) == [ type |-> type, text |-> text ]
NoError == Exception("None", "")
Errors ==
    { Exception("ValueError", "invalid input"),
      Exception("TimeoutException", "timed out") }

\* message = None
NoMessage == "None"
Messages == {"Operation completed", "Something went wrong"}

Result(status, value, error, message) ==
    [ status |-> status, value |-> value, error |-> error,
      message |-> message ]

is_success(r) == r.status = "success"
is_failure(r) == r.status = "failure"

success(value, message) == Result("success", value, NoError, message)

failure(message, error) == Result("failure", None, error, message)

\* A function passed to map: it raises `raises`, or returns its argument
\* plus `add` when `raises` is NoError.
MapFn == [ raises : Errors \cup {NoError}, add : {0, 1} ]

map_drops_error(r, func) ==
    IF is_failure(r)
    THEN failure(r.message, NoError)
    ELSE IF func.raises /= NoError
    THEN failure(func.raises.text, func.raises)
    ELSE success(r.value + func.add, r.message)

map(r, func) ==
    IF is_failure(r)
    THEN failure(r.message, r.error)
    ELSE IF func.raises /= NoError
    THEN failure(func.raises.text, func.raises)
    ELSE success(r.value + func.add, r.message)

NoFn == [ raises |-> NoError, add |-> 0 ]

ResultObs(op, r, pre, func) == [ op |-> op, r |-> r, pre |-> pre, fn |-> func ]

NoResult ==
    ResultObs("none", success(0, NoMessage), success(0, NoMessage), NoFn)

(***************************************************************************)
(* TerakoyaClient.get_lessons_for_month, from the card texts to the list   *)
(* returned.  A text is the sequence of its characters, so that an         *)
(* f-string, str.replace and str.startswith are computed on characters.    *)
(***************************************************************************)
Digits == <<"0", "1", "2", "3", "4", "5", "6", "7", "8", "9">>

DigitChar(n) == Digits[(n % 10) + 1]

\* f"{n:02d}" for 0 <= n <= 99
Pad2(n) == <<DigitChar(n \div 10), DigitChar(n)>>

\* f"{year}" for a four-digit year
Year4(y) ==
    <<DigitChar(y \div 1000), DigitChar(y \div 100), DigitChar(y \div 10),
      DigitChar(y)>>

\* f"{year}-{month:02d}-{day:02d}"
iso_date(y, m, d) == Year4(y) \o <<"-">> \o Pad2(m) \o <<"-">> \o Pad2(d)

\* target_month_str = f"{year}-{month:02d}"
target_month_str(y, m) == Year4(y) \o <<"-">> \o Pad2(m)

\* text.startswith(prefix)
startswith(text, prefix) ==
    /\ Len(text) >= Len(prefix)
    /\ SubSeq(text, 1, Len(prefix)) = prefix

IsDigit(c) == \E k \in 1..Len(Digits) : Digits[k] = c

\* Validator.validate_date_format: re.match(r'^\d{4}-\d{2}-\d{2}$', date)
validate_date_format(date) ==
    /\ Len(date) = 10
    /\ \A k \in {1, 2, 3, 4, 6, 7, 9, 10} : IsDigit(date[k])
    /\ date[5] = "-"
    /\ date[8] = "-"

\* A lesson card of the page: whether a card text was found for its edit
\* button, the MM/DD and the minutes its text shows, the student name the
\* pattern of _extract_lesson_from_card finds in it ("" when none) and the
\* student name the natural-language extractor answers for it ("" for null).
Card(has_text, month, day, minutes, name, ai_name) ==
    [ has_text |-> has_text, month |-> month, day |-> day,
      minutes |-> minutes, name |-> name, ai_name |-> ai_name ]

CardYamada == Card(TRUE, 10, 1, 60, "Yamada Taro", "Yamada Taro")
CardYamadaAgain == Card(TRUE, 10, 1, 90, "Yamada Taro", "Yamada Taro")
CardSato == Card(TRUE, 9, 30, 60, "Sato Hanako", "Sato Hanako")
CardHayashi == Card(TRUE, 10, 15, 60, "", "Hayashi Koji")
CardStatusWord == Card(TRUE, 10, 20, 60, "last lesson", "")
CardEmpty == Card(FALSE, 0, 0, 0, "", "")

CardPool ==
    {CardYamada, CardYamadaAgain, CardSato, CardHayashi, CardStatusWord,
     CardEmpty}

RECURSIVE SeqsUpTo(_, _)
SeqsUpTo(S, n) ==
    IF n = 0 THEN {<<>>}
    ELSE LET shorter == SeqsUpTo(S, n - 1)
         IN  shorter \cup {Append(q, x) : q \in shorter, x \in S}

CardLists == SeqsUpTo(CardPool, MaxCards)

\* student_id = f"student_{hash(student_name) % 100000:05d}"
student_id_of(name) == <<"student", name>>

\* f"lesson_{date.replace('-', '')}_{card_index}"
lesson_id_of(date, card_index) ==
    <<"lesson", SelectSeq(date, LAMBDA c : c /= "-"), card_index>>

\* What one card yields: <<>> for None, <<lesson>> for a record.
\* _extract_lesson_from_card(card, card_index, target_year)
extract_lesson_from_card(card, card_index, year) ==
    IF ~card.has_text \/ card.name = ""
    THEN <<>>
    ELSE LET date == iso_date(year, card.month, card.day)
         IN  << Lesson(lesson_id_of(date, card_index), date,
                       student_id_of(card.name), card.name, card.minutes,
                       CatDedicated) >>

\* AIExtractor._extract_batch for one card of a batch whose API call
\* answered, converted to LessonData by extract_lessons_batch
ai_lesson_from_card(card, card_index, year) ==
    IF ~card.has_text \/ card.ai_name = ""
    THEN <<>>
    ELSE LET date == iso_date(year, card.month, card.day)
         IN  << Lesson(lesson_id_of(date, card_index), date,
                       student_id_of(card.ai_name), card.ai_name,
                       card.minutes, CatDedicated) >>

\* The batches range(0, len(card_texts), batch_size) cuts the cards into,
\* numbered from 0.
Batches(cards, batch_size) ==
    IF batch_size = 0 THEN {}
    ELSE {b \in 0..Len(cards) : b * batch_size < Len(cards)}

BatchOf(card_index, batch_size) == card_index \div batch_size

\* AIExtractor.extract_lessons_batch: `failed` are the batches whose API call
\* raises.  _extract_batch catches the exception and answers None for every
\* card of the batch; range() raises ValueError for a step of 0.
extract_lessons_batch(cards, year, batch_size, failed) ==
    IF batch_size = 0
    THEN [ raised |-> TRUE, results |-> <<>> ]
    ELSE [ raised |-> FALSE,
           results |->
             [ i \in 1..Len(cards) |->
                 IF BatchOf(i - 1, batch_size) \in failed
                 THEN <<>>
                 ELSE ai_lesson_from_card(cards[i], i - 1, year) ] ]

\* LessonValidator.validate on an extracted record
extracted_lesson_is_valid(l) ==
    /\ validate_date_format(l.date)
    /\ l.student_name /= ""
    /\ l.status \in VALID_STATUSES
    /\ l.duration > 0
    /\ l.duration >= MIN_DURATION
    /\ l.category /= <<>>

\* lessons.append(lesson_data) for every result that is not None and valid
RECURSIVE valid_lessons(_)
valid_lessons(results) ==
    IF results = <<>> THEN <<>>
    ELSE LET rest == valid_lessons(Tail(results))
             r == Head(results)
         IN  IF r /= <<>> /\ extracted_lesson_is_valid(r[1])
             THEN <<r[1]>> \o rest
             ELSE rest

\* the regex loop over card_texts
pattern_lessons(cards, year) ==
    valid_lessons([ i \in 1..Len(cards) |->
                      extract_lesson_from_card(cards[i], i - 1, year) ])

\* The extraction block: the lessons list and the use_ai_extraction flag it
\* leaves on the client.
extract_lessons(cards, year, use_ai, batch_size, failed) ==
    LET ai == extract_lessons_batch(cards, year, batch_size, failed)
        flag == use_ai /\ ~ai.raised
        by_ai == IF use_ai /\ ~ai.raised THEN valid_lessons(ai.results)
                 ELSE <<>>
    IN  [ lessons |-> IF flag THEN by_ai
                      ELSE by_ai \o pattern_lessons(cards, year),
          use_ai_extraction |-> flag,
          ai_raised |-> use_ai /\ ai.raised ]

\* filtered_lessons
filter_by_month(ls, year, month) ==
    SelectSeq(ls, LAMBDA l : startswith(l.date, target_month_str(year, month)))

LessonKey(l) == <<l.date, l.student_name>>

RECURSIVE unique_from(_, _, _)
unique_from(ls, seen_keys, unique_lessons) ==
    IF ls = <<>> THEN unique_lessons
    ELSE IF LessonKey(Head(ls)) \notin seen_keys
    THEN unique_from(Tail(ls), seen_keys \cup {LessonKey(Head(ls))},
                     Append(unique_lessons, Head(ls)))
    ELSE unique_from(Tail(ls), seen_keys, unique_lessons)

remove_duplicates_keeps_all(ls) == ls

\* the seen_keys loop
remove_duplicates(ls) == unique_from(ls, {}, <<>>)

NoExtraction ==
    [ status |-> "idle", cards |-> <<>>, year |-> 0, month |-> 0,
      use_ai_extraction |-> FALSE, ai_batch_size |-> 0, used_ai |-> FALSE,
      failed |-> {}, ai_raised |-> FALSE, extracted |-> <<>>,
      value |-> <<>> ]

(***************************************************************************)
(* TerakoyaClient.add_invoice_item.  Every browser operation returns a     *)
(* Result; `env` says which step of this attempt, if any, is the first to  *)
(* fail (later steps are not executed, so their outcomes do not matter),   *)
(* and how the optional steps and the page behave.                         *)
(***************************************************************************)
FailPoint ==
    { "none",
      "add_click",        \* click_javascript on the add-item button fails
      "modal",            \* neither modal field is found
      "date_find",        \* date field not found
      "date_set",         \* JavaScript setter and send_keys fallback both fail
      "modal_check",      \* category select gone after the date input
      "category_find",    \* category select element not found
      "category_select",  \* select_dropdown fails
      "exception",        \* student selection raises (an option went stale)
      "duration",         \* set_value_javascript on the duration fails
      "unit_price",       \* set_value_javascript on the unit price fails
      "save_click" }      \* click on the save button fails

\* Steps after which the optional selections are reached.
LateFailPoint == {"none", "duration", "unit_price", "save_click"}

\* The outcome of a step the attempt does not reach is left at TRUE.
Env ==
    { e \in [ fail_at : FailPoint,
              student_ok : BOOLEAN,     \* optional student selection succeeds
              lesson_option : BOOLEAN,  \* a dependent lesson option is selected
              modal_closes : BOOLEAN ]  \* the modal is gone after the save click
        : /\ e.fail_at \notin LateFailPoint =>
                (e.student_ok /\ e.lesson_option)
          /\ e.fail_at /= "none" => e.modal_closes }

\* Result.message: a text, and for the retry wrapper's failure the number of
\* attempts and the embedded last error.
Msg(text) == [ text |-> text, attempts |-> 0, last_error |-> "" ]

\* The steps in the order add_invoice_item runs them.
StepOrder(auto_date) ==
    <<"add_click", "modal">>
    \o (IF auto_date THEN <<>> ELSE <<"date_find", "date_set">>)
    \o <<"modal_check", "category_find", "category_select", "exception",
         "duration", "unit_price", "save_click">>

IndexOf(seq, x) ==
    IF \E i \in 1..Len(seq) : seq[i] = x
    THEN CHOOSE i \in 1..Len(seq) : seq[i] = x
    ELSE Len(seq) + 1

\* every step other than the failing one is run
Passed_any_order(step, fail_at, auto_date) ==
    LET order == StepOrder(auto_date)
    IN  /\ IndexOf(order, step) <= Len(order)
        /\ step /= fail_at

\* step is reached and does not fail in an attempt whose first failure is
\* at env.fail_at
Passed(step, fail_at, auto_date) ==
    LET order == StepOrder(auto_date)
    IN  /\ IndexOf(order, step) <= Len(order)
        /\ IndexOf(order, step) < IndexOf(order, fail_at)

FailureMessage(point) ==
    CASE point = "add_click" -> "Failed to click add item button"
      [] point = "modal" -> "Modal did not appear after clicking add item"
      [] point = "date_find" -> "Date field not found"
      [] point = "date_set" -> "Failed to set date field via all strategies"
      [] point = "modal_check" -> "Modal closed unexpectedly after date input"
      [] point = "category_find" -> "Category select element not found"
      [] point = "category_select" -> "Failed to select category"
      [] point = "exception" -> "Exception adding invoice item"
      [] point = "duration" -> "Failed to set duration field"
      [] point = "unit_price" -> "Failed to set unit price field"
      [] point = "save_click" -> "Failed to click save button"

Screenshot(point) ==
    CASE point = "add_click" -> "add_item_button_failed"
      [] point = "modal" -> "modal_not_visible"
      [] point = "date_find" -> "date_field_not_found"
      [] point = "date_set" -> "date_input_failed"
      [] point = "modal_check" -> "modal_closed_after_date"
      [] point = "category_find" -> "category_element_not_found"
      [] point = "category_select" -> "category_select_failed"
      [] point = "exception" -> "add_item_exception"
      [] point = "duration" -> "duration_input_failed"
      [] point = "unit_price" -> "unit_price_input_failed"
      [] point = "save_click" -> "modal_save_failed"

clicks_save_always(dry_run, fields_filled) == fields_filled

\* the save button is clicked when every field is filled and the call is not
\* a dry run
clicks_save(dry_run, fields_filled) == ~dry_run /\ fields_filled

\* _wait_for_modal_closed(timeout): sleeps 0.3 s, looks for the modal, and
\* sleeps timeout - 2 s more when it is still found; the Result is a success
\* in both cases.  slept is in tenths of a second.
wait_for_modal_closed(timeout, modal_found) ==
    [ ok |-> TRUE,
      slept |-> 3 + (IF modal_found THEN (timeout - 2) * 10 ELSE 0) ]

\* the attempt fails when the modal is still there after the save click
after_save_click_requires_close(modal_closes) == modal_closes

\* the lines after the successful save click: the failure of the close wait
\* is logged only, and Result.success("Invoice item saved") is returned
after_save_click(modal_closes) ==
    LET close_wait_result == wait_for_modal_closed(5, ~modal_closes)
        warned == ~close_wait_result.ok    \* logger.warning, nothing else
    IN  TRUE

add_invoice_item(lesson, dry_run, env, modal_before) ==
    LET auto_date == category_uses_auto_date(lesson.category)
        order == StepOrder(auto_date)
        \* a failure point this attempt never reaches (manual date steps in
        \* auto-date mode, the save click of a dry run) does not fail it
        fail_at == IF \/ IndexOf(order, env.fail_at) > Len(order)
                      \/ (dry_run /\ env.fail_at = "save_click")
                   THEN "none" ELSE env.fail_at
        passed(step) == Passed(step, fail_at, auto_date)
        opened == passed("modal")
        save_attempted == clicks_save(dry_run, passed("unit_price"))
        saved == save_attempted /\ passed("save_click")
    IN  IF ~lesson_is_valid(lesson)
        THEN [ ok |-> FALSE, message |-> Msg("Invalid lesson data"),
               raised |-> FALSE, trigger_clicked |-> FALSE,
               browser_ops |-> FALSE, modal_detected |-> FALSE,
               date_input |-> FALSE, category_selected |-> FALSE,
               student_selected |-> FALSE, lesson_selected |-> FALSE,
               duration_set |-> FALSE, unit_price_set |-> FALSE,
               save_attempted |-> FALSE, save_clicked |-> FALSE,
               close_wait |-> 0,
               screenshot |-> "none", modal_open |-> modal_before ]
        ELSE [ ok |-> IF saved THEN after_save_click(env.modal_closes)
                      ELSE fail_at = "none",
               message |-> IF fail_at /= "none" THEN Msg(FailureMessage(fail_at))
                           ELSE IF dry_run
                           THEN Msg("Invoice item form filled (not submitted)")
                           ELSE Msg("Invoice item saved"),
               raised |-> FALSE,
               trigger_clicked |-> passed("add_click"),
               browser_ops |-> TRUE,
               modal_detected |-> opened,
               date_input |-> ~auto_date /\ passed("date_set"),
               category_selected |-> passed("category_select"),
               student_selected |-> passed("exception") /\ env.student_ok,
               lesson_selected |-> passed("exception") /\ env.lesson_option,
               duration_set |-> passed("duration"),
               unit_price_set |-> passed("unit_price"),
               save_attempted |-> save_attempted,
               save_clicked |-> saved,
               close_wait |-> IF saved
                              THEN wait_for_modal_closed(5, ~env.modal_closes).slept
                              ELSE 0,
               screenshot |-> IF fail_at /= "none" THEN Screenshot(fail_at)
                              ELSE IF dry_run THEN "dry_run_form_filled"
                              ELSE "none",
               modal_open |-> IF saved THEN ~env.modal_closes
                              ELSE IF fail_at = "modal_check" THEN FALSE
                              ELSE IF opened THEN TRUE
                              ELSE IF fail_at = "modal" THEN FALSE
                              ELSE modal_before ]

NoAttempt ==
    [ ok |-> FALSE, message |-> Msg(""), raised |-> FALSE,
      trigger_clicked |-> FALSE, browser_ops |-> FALSE,
      modal_detected |-> FALSE, date_input |-> FALSE,
      category_selected |-> FALSE, student_selected |-> FALSE,
      lesson_selected |-> FALSE, duration_set |-> FALSE,
      unit_price_set |-> FALSE, save_attempted |-> FALSE,
      save_clicked |-> FALSE, close_wait |-> 0, screenshot |-> "none",
      modal_open |-> FALSE ]

(***************************************************************************)
(* TerakoyaClient.add_invoice_item_with_retry: the frame of one call.      *)
(*   attempt     the loop variable of `for attempt in range(max_retries)`  *)
(*   last_error  the local of that name ("None" until an attempt failed)   *)
(*   pauses      the time.sleep() calls made, in order                     *)
(*   result      the returned Result, status "running" until the return    *)
(*   oks         for each attempt made, whether it succeeded               *)
(*   save_clicks attempts in which the save button was clicked             *)
(*   saves       attempts in which the save click succeeded                *)
(*   after_save  an attempt was started after such an attempt              *)
(***************************************************************************)
NoLesson == Lesson("", "", "", "", 0, <<>>)

with_retry_frame(lesson, max_retries, dry_run, status) ==
    [ lesson |-> lesson, max_retries |-> max_retries, dry_run |-> dry_run,
      attempt |-> 0, last_error |-> "None", pauses |-> <<>>,
      status |-> status, ok |-> FALSE, message |-> Msg(""),
      oks |-> <<>>, save_clicks |-> 0, saves |-> 0, after_save |-> FALSE ]

RetryIdle ==
    /\ retry = with_retry_frame(NoLesson, 0, FALSE, "idle")
    /\ attemptLast = NoAttempt
    /\ modal_open = FALSE
    /\ touched = {}
    /\ MainIdle

Pow2(n) == 2 ^ n

Min(a, b) == IF a < b THEN a ELSE b

BACKOFF_CAP == 10

backoff_uncapped(attempt) == Pow2(attempt)

backoff(attempt) == Min(Pow2(attempt), BACKOFF_CAP)

more_attempts_inclusive(f) == f.attempt <= f.max_retries

\* the loop `for attempt in range(max_retries)` has another iteration
more_attempts(f) == f.attempt < f.max_retries

after_attempt_ignoring_success(f, r) ==
    LET seen == [f EXCEPT !.oks = Append(@, r.ok),
                          !.save_clicks = @ + (IF r.save_attempted THEN 1
                                               ELSE 0),
                          !.saves = @ + (IF r.save_clicked THEN 1 ELSE 0),
                          !.after_save = @ \/ f.saves > 0]
    IN  [seen EXCEPT !.last_error = r.message.text,
                     !.pauses = IF f.attempt < f.max_retries - 1
                                THEN Append(@, backoff(f.attempt)) ELSE @,
                     !.attempt = @ + 1]

\* one iteration of the loop body, given what add_invoice_item did
after_attempt(f, r) ==
    LET seen == [f EXCEPT !.oks = Append(@, r.ok),
                          !.save_clicks = @ + (IF r.save_attempted THEN 1
                                               ELSE 0),
                          !.saves = @ + (IF r.save_clicked THEN 1 ELSE 0),
                          !.after_save = @ \/ f.saves > 0]
    IN  IF r.raised
        THEN [seen EXCEPT !.last_error = "exception",
                          !.pauses = IF f.attempt < f.max_retries - 1
                                     THEN Append(@, backoff(f.attempt)) ELSE @,
                          !.attempt = @ + 1]
        ELSE IF r.ok
        THEN [seen EXCEPT !.status = "returned", !.ok = TRUE,
                          !.message = r.message]
        ELSE [seen EXCEPT !.last_error = r.message.text,
                          !.pauses = IF f.attempt < f.max_retries - 1
                                     THEN Append(@, backoff(f.attempt)) ELSE @,
                          !.attempt = @ + 1]

\* the return after the loop
exhausted(f) ==
    [f EXCEPT !.status = "returned", !.ok = FALSE,
              !.message = [ text |-> "Failed after attempts. Last error:",
                            attempts |-> f.max_retries,
                            last_error |-> f.last_error ]]

RetryLessons ==
    { Lesson("lesson_1", "2025-10-15", "student_00001", "Yamada Taro", 60,
             CatDedicated),
      Lesson("lesson_2", "2025-10-20", "student_00002", "Sato Hanako", 90,
             CatSpot),
      Lesson("lesson_3", "2025-10-28", "student_00003", "Suzuki Ken", 10,
             CatSpot) }

InitRetry ==
    /\ now = 0
    /\ cb = CircuitBreaker(1, 1)
    /\ cbLast = NoOp
    /\ streak = 0
    /\ opened_at = None
    /\ session = SessionManager
    /\ sessLast = NoSessionOp
    /\ \E l \in RetryLessons, n \in 0..MaxRetries, d \in BOOLEAN :
          retry = with_retry_frame(l, n, d, "running")
    /\ attemptLast = NoAttempt
    /\ modal_open = FALSE
    /\ touched = {}
    /\ MainIdle
    /\ extraction = NoExtraction
    /\ result = NoResult
    /\ summary = NoSummary
    /\ form = NoForm

RetryAttempt(env) ==
    LET r == add_invoice_item(retry.lesson, retry.dry_run, env, modal_open)
    IN  /\ retry.status = "running"
        /\ more_attempts(retry)
        /\ retry' = after_attempt(retry, r)
        /\ attemptLast' = r
        /\ modal_open' = r.modal_open
        /\ touched' = IF r.browser_ops THEN touched \cup {retry.lesson}
                      ELSE touched
        /\ clientLast' = ClientObs("add_invoice_item", r.ok, r.message.text,
                                   FALSE, session, now, r.screenshot)
        /\ UNCHANGED <<now, cbVars, sessVars, mainVars>>

RetryExhausted ==
    /\ retry.status = "running"
    /\ ~more_attempts(retry)
    /\ retry' = exhausted(retry)
    /\ UNCHANGED <<now, cbVars, sessVars, attemptLast, modal_open, touched,
                   mainVars, clientLast>>

NextRetry ==
    \/ \E env \in Env : RetryAttempt(env)
    \/ RetryExhausted

SpecRetry == InitRetry /\ [][NextRetry]_vars

(***************************************************************************)
(* C5: add_invoice_item_with_retry(max_retries = N) makes at most N        *)
(* attempts; it returns the first successful attempt's result and makes no *)
(* attempt after it; when all N attempts fail it returns a failure whose   *)
(* message embeds the error of the last attempt; it always returns a       *)
(* Result and never raises.                                                *)
(***************************************************************************)
C5_RetryContract ==
    /\ Len(retry.oks) <= retry.max_retries
    /\ \A i \in 1..Len(retry.oks) :
          retry.oks[i] => (i = Len(retry.oks) /\ retry.status = "returned"
                           /\ retry.ok /\ retry.message = attemptLast.message)
    /\ (retry.status = "returned" /\ ~retry.ok) =>
          /\ Len(retry.oks) = retry.max_retries
          /\ \A i \in 1..Len(retry.oks) : ~retry.oks[i]
          /\ retry.message.attempts = retry.max_retries
          /\ retry.max_retries > 0 =>
                retry.message.last_error = attemptLast.message.text
    /\ retry.status \in {"running", "returned"}
    /\ ~attemptLast.raised

C5_Witness ==
    /\ retry.status = "returned"
    /\ ~retry.ok
    /\ retry.max_retries = 3
    /\ Len(retry.oks) = 3
    /\ retry.message.last_error = "Modal did not appear after clicking add item"

(***************************************************************************)
(* C6: over all attempts add_invoice_item_with_retry makes for a record,   *)
(* the save click succeeds at most once, and no attempt is started after   *)
(* an attempt in which the save click succeeded.                           *)
(***************************************************************************)
C6_AtMostOnceSave ==
    /\ retry.saves <= 1
    /\ ~retry.after_save

C6_Witness ==
    /\ retry.saves = 1
    /\ Len(retry.oks) = 3
    /\ retry.status = "returned"
    /\ retry.ok
    /\ attemptLast.save_clicked

(***************************************************************************)
(* C11: after the failed attempt with zero-based index k, if another       *)
(* attempt remains, exactly one pause of min(2^k, 10) seconds is taken; no *)
(* pause follows the last attempt or a successful attempt.  With           *)
(* max_retries = 3 and attempts that fail, fail and succeed, the result is *)
(* success after 3 attempts and the pauses are 1 s and 2 s.                *)
(***************************************************************************)
FailedAttempts == Cardinality({ i \in 1..Len(retry.oks) : ~retry.oks[i] })

C11_Backoff ==
    retry.status \in {"running", "returned"} =>
        /\ Len(retry.pauses) =
              IF FailedAttempts < retry.max_retries THEN FailedAttempts
              ELSE IF retry.max_retries > 0 THEN retry.max_retries - 1 ELSE 0
        /\ \A i \in 1..Len(retry.pauses) :
              /\ retry.pauses[i] = (IF 2 ^ (i - 1) < 10 THEN 2 ^ (i - 1) ELSE 10)
              /\ retry.pauses[i] <= 10
        /\ (retry.max_retries = 3 /\ retry.oks = <<FALSE, FALSE, TRUE>>) =>
              /\ retry.status = "returned"
              /\ retry.ok
              /\ retry.pauses = <<1, 2>>

C11_Witness ==
    /\ retry.max_retries = 3
    /\ retry.oks = <<FALSE, FALSE, TRUE>>
    /\ retry.status = "returned"
    /\ retry.ok
    /\ retry.pauses = <<1, 2>>

C11_WitnessCeiling ==
    /\ retry.status = "returned"
    /\ ~retry.ok
    /\ retry.max_retries = 6
    /\ retry.pauses = <<1, 2, 4, 8, 10>>

(***************************************************************************)
(* C15: in dry-run mode the save button is never clicked in any attempt:   *)
(* add_invoice_item(dry_run = True) returns success as soon as the         *)
(* required fields are filled and leaves the modal open.                   *)
(***************************************************************************)
C15_DryRunNeverSaves ==
    (retry.dry_run /\ retry.status \in {"running", "returned"}) =>
        /\ retry.save_clicks = 0
        /\ ~attemptLast.save_attempted
        /\ ~attemptLast.save_clicked
        /\ attemptLast.unit_price_set =>
              /\ attemptLast.ok
              /\ attemptLast.message =
                    Msg("Invoice item form filled (not submitted)")
              /\ attemptLast.category_selected
              /\ attemptLast.duration_set
              /\ modal_open
        /\ attemptLast.ok => attemptLast.unit_price_set

C15_Witness ==
    /\ retry.dry_run
    /\ retry.status = "returned"
    /\ retry.ok
    /\ Len(retry.oks) = 2
    /\ attemptLast.unit_price_set
    /\ attemptLast.date_input
    /\ modal_open

(***************************************************************************)
(* C16: in an attempt of add_invoice_item, a failure to set a required     *)
(* field (date without auto-derived date, category, duration, unit price)  *)
(* ends the attempt with a failure and a screenshot and the save button is *)
(* not clicked; a failure of an optional step (student selection,          *)
(* dependent lesson selection) never aborts the attempt: the attempt goes  *)
(* on to the duration field.                                               *)
(***************************************************************************)
RequiredFieldScreenshots ==
    { "date_field_not_found", "date_input_failed",
      "category_element_not_found", "category_select_failed",
      "duration_input_failed", "unit_price_input_failed" }

RequiredFieldFailed == attemptLast.screenshot \in RequiredFieldScreenshots

OptionalStepFailed ==
    /\ attemptLast.category_selected
    /\ ~attemptLast.student_selected \/ ~attemptLast.lesson_selected

C16_RequiredPart ==
    RequiredFieldFailed =>
        /\ ~attemptLast.ok
        /\ ~attemptLast.save_attempted
        /\ ~attemptLast.save_clicked

C16_FieldPolicy ==
    /\ C16_RequiredPart
    /\ OptionalStepFailed =>
          \/ attemptLast.duration_set
          \/ attemptLast.screenshot = "duration_input_failed"

(***************************************************************************)
(* run_terakoya.py main(), and the client operations it calls.             *)
(***************************************************************************)
\* Lessons a successful get_lessons_for_month can return: validated records,
\* no two with the same (date, student_name), in extraction order.
LessonPool ==
    << Lesson("lesson_1", "2025-10-01", "student_00001", "Yamada Taro", 60,
              CatDedicated),
       Lesson("lesson_2", "2025-10-01", "student_00002", "Sato Hanako", 90,
              CatSpot),
       Lesson("lesson_3", "2025-10-15", "student_00001", "Yamada Taro", 60,
              CatDedicated),
       Lesson("lesson_4", "2025-10-15", "student_00003", "Suzuki Ken", 45,
              CatDedicatedAround),
       Lesson("lesson_5", "2025-10-20", "student_00002", "Sato Hanako", 30,
              CatSpot) >>

LessonLists == { SubSeq(LessonPool, 1, n) : n \in 0..MaxLessons }

\* Invoice items already on the page (_extract_invoice_from_row).
InvoiceItem(date, student_id, student_name) ==
    [ date |-> date, student_id |-> student_id, student_name |-> student_name,
      category |-> CatSpot, duration |-> 60, unit_price |-> 2300 ]

ItemSameId == InvoiceItem("2025-10-01", "student_00001", "Yamada T.")
ItemSameName == InvoiceItem("2025-10-15", "", "Suzuki Ken")
ItemOther == InvoiceItem("2025-10-28", "student_00009", "Tanaka Jiro")

ExistingLists ==
    { <<>>, <<ItemOther>>, <<ItemSameId>>, <<ItemSameName, ItemOther>>,
      <<ItemSameId, ItemSameName>> }

is_duplicate_by_id_only(lesson, existing) ==
    \E i \in 1..Len(existing) :
        /\ existing[i].date = lesson.date
        /\ existing[i].student_id = lesson.student_id

is_duplicate(lesson, existing) ==
    \E i \in 1..Len(existing) :
        \/ (existing[i].date = lesson.date
            /\ existing[i].student_id = lesson.student_id)
        \/ (existing[i].date = lesson.date
            /\ existing[i].student_name = lesson.student_name)

IsNew(lesson, existing) == ~is_duplicate(lesson, existing)

lessons_to_add_unfiltered(all, existing) == all

\* to_add = [lesson for lesson in lessons if not is_duplicate(...)]
lessons_to_add(all, existing) ==
    SelectSeq(all, LAMBDA l : IsNew(l, existing))

record_outcome_drops_failures(added, failed, lesson, ok, message) ==
    IF ok
    THEN [ added |-> Append(added, lesson), failed |-> failed ]
    ELSE [ added |-> added, failed |-> failed ]

\* the if/else on add_result after add_invoice_item_with_retry returned
record_outcome(added, failed, lesson, ok, message) ==
    IF ok
    THEN [ added |-> Append(added, lesson), failed |-> failed ]
    ELSE [ added |-> added, failed |-> Append(failed, <<lesson, message>>) ]

\* TerakoyaClient.__init__: failure_threshold=3, timeout=timedelta(seconds=60)
CLIENT_FAILURE_THRESHOLD == 3
CLIENT_BREAKER_TIMEOUT == 60
\* max_retries=3 in main's call of add_invoice_item_with_retry
MAIN_MAX_RETRIES == 3

\* Behaviours of the page during the submissions of a whole run.
RunEnv ==
    { e \in Env : /\ e.fail_at \in {"none", "modal", "save_click"}
                  /\ e.student_ok /\ e.lesson_option }

(***************************************************************************)
(* TerakoyaClient.login.  fail_at names the first step that fails, if any. *)
(***************************************************************************)
LoginFailPoint ==
    { "none",
      "email",              \* empty email or no "@"
      "password",           \* empty password or shorter than 8 characters
      "navigate",           \* browser.navigate(base_url) fails
      "login_button_find",  \* the login control is not found
      "login_button_click", \* the script-dispatched click raises
      "email_input",        \* input_text on the email field fails
      "password_input",     \* input_text on the password field fails
      "submit_click",       \* click on the login button fails
      "error_indicator",    \* an error message is visible after the submit
      "exception" }         \* any other exception inside the try block

LoginMessage(point) ==
    CASE point = "none" -> "Login successful"
      [] point = "email" -> "Invalid email address"
      [] point = "password" -> "Invalid password: must be at least 8 characters"
      [] point = "navigate" -> "Navigation failed"
      [] point = "login_button_find" -> "Could not find login button on homepage"
      [] point = "login_button_click" -> "Failed to click login button (script)"
      [] point = "email_input" -> "Failed to input email"
      [] point = "password_input" -> "Failed to input password"
      [] point = "submit_click" -> "Failed to click login button"
      [] point = "error_indicator" ->
            "Login failed - credentials may be incorrect"
      [] point = "exception" -> "Login exception"

LoginScreenshot(point) ==
    CASE point \in {"none", "email", "password", "navigate"} -> "none"
      [] point = "login_button_find" -> "login_button_not_found"
      [] point = "login_button_click" -> "login_button_click_failed"
      [] point = "email_input" -> "login_email_failed"
      [] point = "password_input" -> "login_password_failed"
      [] point = "submit_click" -> "login_button_failed"
      [] point = "error_indicator" -> "login_error"
      [] point = "exception" -> "login_exception"

login_marks_early(s, t, fail_at) ==
    [ ok |-> fail_at = "none",
      message |-> LoginMessage(fail_at),
      screenshot |-> LoginScreenshot(fail_at),
      navigated |-> fail_at \notin {"email", "password"},
      session |-> IF fail_at \in {"none", "error_indicator"}
                  THEN mark_logged_in(s, t) ELSE s ]

login(s, t, fail_at) ==
    [ ok |-> fail_at = "none",
      message |-> LoginMessage(fail_at),
      screenshot |-> LoginScreenshot(fail_at),
      navigated |-> fail_at \notin {"email", "password"},
      session |-> IF fail_at = "none" THEN mark_logged_in(s, t) ELSE s ]

InitRun ==
    /\ now = 0
    /\ cb = CircuitBreaker(CLIENT_FAILURE_THRESHOLD, CLIENT_BREAKER_TIMEOUT)
    /\ cbLast = NoOp
    /\ streak = 0
    /\ opened_at = None
    /\ session = SessionManager
    /\ sessLast = NoSessionOp
    /\ retry = with_retry_frame(NoLesson, 0, FALSE, "idle")
    /\ attemptLast = NoAttempt
    /\ modal_open = FALSE
    /\ touched = {}
    /\ \E a \in Args : MainStart(a)
    /\ extraction = NoExtraction
    /\ result = NoResult
    /\ summary = NoSummary
    /\ form = NoForm

\* Browser.close(): quits the driver if there is one
browser_close(b) == IF b \in {"open", "partial"} THEN "closed" ELSE b

\* Browser.__init__: the driver is up, or the constructor failed with a
\* partially initialized driver, ran self.close() and raised
browser_init(driver_ok) ==
    IF driver_ok THEN "open" ELSE browser_close("partial")

final_exit_code_always_zero(failed) == 0

\* return 0 if not failed_lessons else 1
final_exit_code(failed) == IF failed = <<>> THEN 0 ELSE 1

return_without_finally(code) ==
    /\ pc' = "done"
    /\ exit_code' = code
    /\ UNCHANGED browser

\* return `code` from inside the inner try: the finally clause closes the
\* browser
Return(code) ==
    /\ pc' = "done"
    /\ exit_code' = code
    /\ browser' = browser_close(browser)

\* parse_target_month and config.validate(): an invalid month or an invalid
\* configuration raises, and main() returns 1 before a Browser exists
Initialize(init_ok) ==
    /\ pc = "start"
    /\ IF parse_target_month(args.month) /\ init_ok
       THEN /\ pc' = "browser"
            /\ UNCHANGED exit_code
       ELSE /\ pc' = "done"
            /\ exit_code' = 1
    /\ UNCHANGED <<now, cbVars, sessVars, retryVars, args, lessons,
                   existing_invoices, to_add, idx, added_lessons,
                   failed_lessons, submitted, report, browser, clientLast,
                   extraction, result, summary, form>>

\* browser = Browser(config=browser_config); a WebDriverException ends
\* main() with 1
CreateBrowser(driver_ok) ==
    /\ pc = "browser"
    /\ browser' = browser_init(driver_ok)
    /\ IF driver_ok
       THEN /\ pc' = "client"
            /\ UNCHANGED exit_code
       ELSE /\ pc' = "done"
            /\ exit_code' = 1
    /\ UNCHANGED <<now, cbVars, sessVars, retryVars, args, lessons,
                   existing_invoices, to_add, idx, added_lessons,
                   failed_lessons, submitted, report, clientLast, extraction,
                   result, summary, form>>

\* TerakoyaClient(...) and the password check
CheckPassword ==
    /\ pc = "client"
    /\ IF args.has_password
       THEN /\ pc' = "login"
            /\ UNCHANGED <<exit_code, browser>>
       ELSE Return(1)
    /\ UNCHANGED <<now, cbVars, sessVars, retryVars, args, lessons,
                   existing_invoices, to_add, idx, added_lessons,
                   failed_lessons, submitted, report, clientLast, extraction,
                   result, summary, form>>

\* Step 1: client.login
Login(fail_at) ==
    LET r == login(session, now, fail_at)
    IN  /\ pc = "login"
        /\ session' = r.session
        /\ clientLast' = ClientObs("login", r.ok, r.message, r.navigated,
                                   session, now, r.screenshot)
        /\ IF r.ok
           THEN /\ pc' = "get_lessons"
                /\ UNCHANGED <<exit_code, browser>>
           ELSE Return(1)
        /\ UNCHANGED <<now, cbVars, sessLast, retryVars, args, lessons,
                       existing_invoices, to_add, idx, added_lessons,
                       failed_lessons, submitted, report, extraction, result,
                       summary, form>>

\* TerakoyaClient.ensure_logged_in
ensure_logged_in(s, t, page) == require_login(s, t, page)

session_check_skipped(s, t, page) == SessionResult(s, TRUE, FALSE, "Login valid")

\* the session check at the head of get_lessons_for_month and
\* navigate_to_invoice_page
login_check(s, t, page) == ensure_logged_in(s, t, page)

\* TerakoyaClient.get_lessons_for_month: page_ok says whether navigation and
\* extraction succeed, found is the list they yield
get_lessons_for_month(s, t, page, page_ok, found) ==
    LET check == login_check(s, t, page)
    IN  IF ~check.ok
        THEN [ ok |-> FALSE, message |-> "Not logged in", value |-> <<>>,
               navigated |-> FALSE, session |-> check.session ]
        ELSE IF ~page_ok
        THEN [ ok |-> FALSE, message |-> "Failed to navigate to lessons page",
               value |-> <<>>, navigated |-> TRUE, session |-> check.session ]
        ELSE [ ok |-> TRUE, message |-> "Retrieved lessons", value |-> found,
               navigated |-> TRUE, session |-> check.session ]

\* TerakoyaClient.navigate_to_invoice_page
navigate_to_invoice_page(s, t, page, page_ok) ==
    LET check == login_check(s, t, page)
    IN  IF ~check.ok
        THEN [ ok |-> FALSE, message |-> "Not logged in",
               navigated |-> FALSE, session |-> check.session ]
        ELSE IF ~page_ok
        THEN [ ok |-> FALSE, message |-> "Failed to navigate to invoice page",
               navigated |-> TRUE, session |-> check.session ]
        ELSE [ ok |-> TRUE, message |-> "Navigation successful",
               navigated |-> TRUE, session |-> check.session ]

\* Step 2: client.get_lessons_for_month
GetLessons(page, page_ok, found) ==
    LET r == get_lessons_for_month(session, now, page, page_ok, found)
    IN  /\ pc = "get_lessons"
        /\ session' = r.session
        /\ clientLast' = ClientObs("get_lessons_for_month", r.ok, r.message,
                                   r.navigated, session, now, "none")
        /\ IF ~r.ok
           THEN /\ Return(1)
                /\ UNCHANGED lessons
           ELSE /\ lessons' = r.value
                /\ IF r.value = <<>>
                   THEN Return(0)
                   ELSE /\ pc' = "navigate"
                        /\ UNCHANGED <<exit_code, browser>>
        /\ UNCHANGED <<now, cbVars, sessLast, retryVars, args,
                       existing_invoices, to_add, idx, added_lessons,
                       failed_lessons, submitted, report, extraction, result,
                       summary, form>>

\* Step 3: client.navigate_to_invoice_page
Navigate(page, page_ok) ==
    LET r == navigate_to_invoice_page(session, now, page, page_ok)
    IN  /\ pc = "navigate"
        /\ session' = r.session
        /\ clientLast' = ClientObs("navigate_to_invoice_page", r.ok,
                                   r.message, r.navigated, session, now,
                                   "none")
        /\ IF r.ok
           THEN /\ pc' = "existing"
                /\ UNCHANGED <<exit_code, browser>>
           ELSE Return(1)
        /\ UNCHANGED <<now, cbVars, sessLast, retryVars, args, lessons,
                       existing_invoices, to_add, idx, added_lessons,
                       failed_lessons, submitted, report, extraction, result,
                       summary, form>>

\* Step 4: client.get_existing_invoices, the duplicate filter and the
\* "nothing to add" return
GetExisting(ok, found) ==
    LET existing == IF ok THEN found ELSE <<>>
        new == lessons_to_add(lessons, existing)
    IN  /\ pc = "existing"
        /\ existing_invoices' = existing
        /\ to_add' = new
        /\ summary' = display_summary(lessons, existing, new)
        /\ IF new = <<>>
           THEN /\ Return(0)
                /\ UNCHANGED idx
           ELSE /\ pc' = "loop"
                /\ idx' = 1
                /\ UNCHANGED <<exit_code, browser>>
        /\ UNCHANGED <<now, cbVars, sessVars, retryVars, args, lessons,
                       added_lessons, failed_lessons, submitted, report, clientLast,
                       extraction, result, form>>

\* Step 5, loop body: the call of add_invoice_item_with_retry for to_add[idx]
LoopCall ==
    /\ pc = "loop"
    /\ idx <= Len(to_add)
    /\ retry' = with_retry_frame(to_add[idx], MAIN_MAX_RETRIES, args.dry_run,
                                 "running")
    /\ submitted' = submitted \cup {to_add[idx]}
    /\ pc' = "in_retry"
    /\ UNCHANGED <<now, cbVars, sessVars, attemptLast, modal_open, touched,
                   args, lessons, existing_invoices, to_add, idx,
                   added_lessons, failed_lessons, browser, report, exit_code, clientLast,
                   extraction, result, summary, form>>

\* Step 5, loop body: add_result is appended to added_lessons or
\* failed_lessons, and the loop moves on
LoopRecord ==
    LET out == record_outcome(added_lessons, failed_lessons, to_add[idx],
                              retry.ok, retry.message)
    IN  /\ pc = "in_retry"
        /\ retry.status = "returned"
        /\ added_lessons' = out.added
        /\ failed_lessons' = out.failed
        /\ idx' = idx + 1
        /\ pc' = IF idx + 1 <= Len(to_add) THEN "loop" ELSE "report"
        /\ retry' = [retry EXCEPT !.status = "idle"]
        /\ UNCHANGED <<now, cbVars, sessVars, attemptLast, modal_open,
                       touched, args, lessons, existing_invoices, to_add,
                       submitted, browser, report, exit_code, clientLast,
                       extraction, result, summary, form>>

\* Step 6 and save_execution_report; a failure to write the report is an
\* exception that ends main() with 1
SaveReport(write_ok) ==
    /\ pc = "report"
    /\ IF write_ok
       THEN /\ report' = [ saved |-> TRUE,
                           total_lessons |-> Len(lessons),
                           existing_invoices |-> Len(existing_invoices),
                           added |-> added_lessons,
                           failed |-> failed_lessons,
                           submitted |-> FALSE,
                           dry_run |-> args.dry_run ]
            /\ Return(final_exit_code(failed_lessons))
       ELSE /\ Return(1)
            /\ UNCHANGED report
    /\ UNCHANGED <<now, cbVars, sessVars, retryVars, args, lessons,
                   existing_invoices, to_add, idx, added_lessons,
                   failed_lessons, submitted, clientLast, extraction, result,
                   summary, form>>

\* KeyboardInterrupt while main() runs: the finally clause closes the
\* browser if it was constructed, and main() returns 130
Interrupt ==
    /\ pc /= "done"
    /\ pc' = "done"
    /\ exit_code' = 130
    /\ browser' = browser_close(browser)
    /\ retry' = [retry EXCEPT !.status = IF @ = "running" THEN "interrupted"
                                         ELSE @]
    /\ UNCHANGED <<now, cbVars, sessVars, attemptLast, modal_open, touched,
                   args, lessons, existing_invoices, to_add, idx,
                   added_lessons, failed_lessons, submitted, report, clientLast,
                   extraction, result, summary, form>>

\* Time passes while main() runs (page loads, waits, sleeps between
\* retries); it is observed at the next client operation: the clock jumps
\* past one inactivity window before step 2, step 3 or a record of step 5.
RunTick ==
    /\ pc \in {"get_lessons", "navigate", "loop"}
    /\ now + SESSION_TIMEOUT + 1 <= MaxRunTicks * (SESSION_TIMEOUT + 1)
    /\ now' = now + SESSION_TIMEOUT + 1
    /\ UNCHANGED <<cbVars, sessVars, retryVars, mainVars, clientLast>>

NextRun ==
    \/ \E ok \in BOOLEAN : Initialize(ok)
    \/ \E ok \in BOOLEAN : CreateBrowser(ok)
    \/ CheckPassword
    \/ \E fail_at \in LoginFailPoint : Login(fail_at)
    \/ \E page \in PageCheck, ok \in BOOLEAN, found \in LessonLists :
          GetLessons(page, ok, found)
    \/ \E page \in PageCheck, ok \in BOOLEAN : Navigate(page, ok)
    \/ \E ok \in BOOLEAN, found \in ExistingLists : GetExisting(ok, found)
    \/ LoopCall
    \/ \E env \in RunEnv : RetryAttempt(env)
    \/ RetryExhausted
    \/ LoopRecord
    \/ \E ok \in BOOLEAN : SaveReport(ok)
    \/ Interrupt
    \/ RunTick

SpecRun == InitRun /\ [][NextRun]_vars

Recorded(lesson) ==
    \/ \E k \in 1..Len(added_lessons) : added_lessons[k] = lesson
    \/ \E k \in 1..Len(failed_lessons) : failed_lessons[k][1] = lesson

InAdded(lesson) == \E k \in 1..Len(added_lessons) : added_lessons[k] = lesson

InFailed(lesson) ==
    \E k \in 1..Len(failed_lessons) : failed_lessons[k][1] = lesson

(***************************************************************************)
(* C7: a retrieved record that is_duplicate against the existing invoice   *)
(* items read before the submission loop is never passed to                *)
(* add_invoice_item_with_retry, has no browser operation issued for it and *)
(* never appears among the added records.                                  *)
(***************************************************************************)
C7_DuplicatesSkipped ==
    \A i \in 1..Len(lessons) :
        is_duplicate(lessons[i], existing_invoices) =>
            /\ lessons[i] \notin submitted
            /\ lessons[i] \notin touched
            /\ ~InAdded(lessons[i])

C7_Witness ==
    /\ pc = "report"
    /\ Len(lessons) = 4
    /\ is_duplicate(lessons[1], existing_invoices)
    /\ is_duplicate(lessons[4], existing_invoices)
    /\ Len(added_lessons) = 2

(***************************************************************************)
(* C8: records are submitted one at a time in list order: when a record    *)
(* has been passed to add_invoice_item_with_retry, every record before it  *)
(* in to_add already has its outcome in added_lessons or failed_lessons,   *)
(* and no later record has been passed or touched.                         *)
(***************************************************************************)
C8_SequentialInOrder ==
    \A i \in 1..Len(to_add) :
        (to_add[i] \in submitted \/ to_add[i] \in touched) =>
            /\ i <= idx
            /\ \A j \in 1..(i - 1) : Recorded(to_add[j])

C8_Witness ==
    /\ pc = "in_retry"
    /\ retry.status = "running"
    /\ retry.attempt = 1
    /\ idx = 3
    /\ Len(added_lessons) = 1
    /\ Len(failed_lessons) = 1

(***************************************************************************)
(* C9: a record that fails after its retries does not stop the run: when   *)
(* the loop has ended every record of to_add was attempted and is in       *)
(* exactly one of added_lessons / failed_lessons, so                       *)
(* |added| + |failed| = |to_add|.                                          *)
(***************************************************************************)
C9_FailuresIsolated ==
    (pc = "report" \/ report.saved) =>
        /\ \A i \in 1..Len(to_add) :
              /\ to_add[i] \in submitted
              /\ InAdded(to_add[i]) /= InFailed(to_add[i])
        /\ Len(added_lessons) + Len(failed_lessons) = Len(to_add)

C9_Witness ==
    /\ report.saved
    /\ Len(to_add) = 3
    /\ InFailed(to_add[1])
    /\ InAdded(to_add[2])
    /\ InFailed(to_add[3])
    /\ exit_code = 1

C9_WitnessOneRecord ==
    /\ report.saved
    /\ Len(lessons) = 1
    /\ existing_invoices = <<>>
    /\ Len(report.added) = 1
    /\ Len(report.failed) = 0

(***************************************************************************)
(* C10: the record submissions of a run go through the client's single     *)
(* CircuitBreaker: once failure_threshold (3) consecutive record           *)
(* submissions have failed the breaker is OPEN, and no browser operation   *)
(* is issued for the records that follow.                                  *)
(***************************************************************************)
FailedRun(i) ==
    /\ i > CLIENT_FAILURE_THRESHOLD
    /\ \A j \in (i - CLIENT_FAILURE_THRESHOLD)..(i - 1) : InFailed(to_add[j])

C10_BreakerGatesRun ==
    \A i \in 1..Len(to_add) :
        FailedRun(i) =>
            /\ cb.state = "OPEN"
            /\ to_add[i] \notin touched

(***************************************************************************)
(* C12: once the Browser has been constructed in main(), browser.close()   *)
(* has run when main() returns, on every way out (normal completion, early *)
(* return, exception, keyboard interrupt); and when Browser.__init__ fails *)
(* close() has run before main() returns 1.                                *)
(***************************************************************************)
C12_TeardownOnExit ==
    [][ (pc /= "done" /\ pc' = "done") =>
            /\ browser = "open" => browser' = "closed"
            /\ (pc = "browser" /\ exit_code' = 1) => browser' = "closed"
            /\ browser' \in {"none", "closed"}
            /\ browser' = "none" => pc \in {"start", "browser"} ]_vars

C12_Witness ==
    /\ pc = "done"
    /\ browser = "closed"
    /\ report.saved
    /\ exit_code = 0

C12_WitnessInterrupt ==
    /\ pc = "done"
    /\ browser = "closed"
    /\ exit_code = 130
    /\ retry.status = "interrupted"

C12_WitnessConstructor ==
    /\ pc = "done"
    /\ browser = "closed"
    /\ exit_code = 1
    /\ session.state = "NOT_LOGGED_IN"
    /\ args.has_password

(***************************************************************************)
(* C13: when a keyboard interrupt ends the run while the submission loop   *)
(* is in progress, the browser is closed and the execution report is       *)
(* written with the records added and failed so far.                       *)
(***************************************************************************)
InterruptedInLoop ==
    /\ pc = "done"
    /\ exit_code = 130
    /\ idx \in 1..Len(to_add)

C13_InterruptKeepsPartialResults ==
    InterruptedInLoop =>
        /\ browser = "closed"
        /\ report.saved
        /\ report.added = added_lessons
        /\ report.failed = failed_lessons

(***************************************************************************)
(* C14: main() returns 0 when the run completes with zero failed records,  *)
(* and a non-zero code whenever at least one record failed after its       *)
(* retries, the password is missing, or the target month is invalid.       *)
(***************************************************************************)
C14_ExitCode ==
    pc = "done" =>
        /\ (report.saved /\ failed_lessons = <<>>) => exit_code = 0
        /\ failed_lessons /= <<>> => exit_code \notin {0, None}
        /\ ~args.has_password => exit_code \notin {0, None}
        /\ ~parse_target_month(args.month) => exit_code \notin {0, None}

C14_Witness ==
    /\ pc = "done"
    /\ report.saved
    /\ Len(added_lessons) = 1
    /\ Len(failed_lessons) = 1
    /\ exit_code = 1

C14_WitnessClean ==
    /\ pc = "done"
    /\ report.saved
    /\ Len(added_lessons) = 2
    /\ failed_lessons = <<>>
    /\ exit_code = 0

C14_WitnessMonth ==
    /\ pc = "done"
    /\ args.month.month = 13
    /\ exit_code = 1

(***************************************************************************)
(* C17: record submission consumes the session check: when the session is  *)
(* not LOGGED_IN or more than 30 minutes have passed since last_activity,  *)
(* add_invoice_item fails without clicking the add-item trigger, filling a *)
(* field or clicking save.                                                 *)
(***************************************************************************)
SessionInvalidAt(s, t) ==
    \/ s.state /= "LOGGED_IN"
    \/ s.last_activity = None
    \/ t - s.last_activity > SESSION_TIMEOUT

C17_SubmissionChecksSession ==
    (/\ clientLast.op = "add_invoice_item"
     /\ SessionInvalidAt(clientLast.pre, clientLast.pre_now)) =>
        /\ ~clientLast.ok
        /\ ~attemptLast.trigger_clicked
        /\ ~attemptLast.category_selected
        /\ ~attemptLast.save_attempted

(***************************************************************************)
(* C18: get_lessons_for_month and navigate_to_invoice_page, called while   *)
(* require_login() fails, return a failure with the message                *)
(* 'Not logged in' and issue no browser navigation.                        *)
(***************************************************************************)
CalledWithoutLogin ==
    /\ clientLast.op \in {"get_lessons_for_month", "navigate_to_invoice_page"}
    /\ \E page \in PageCheck :
          ~require_login(clientLast.pre, clientLast.pre_now, page).ok

C18_NotLoggedInFailure ==
    CalledWithoutLogin =>
        /\ ~clientLast.ok
        /\ clientLast.message = "Not logged in"
        /\ ~clientLast.navigated

C18_Witness ==
    /\ CalledWithoutLogin
    /\ clientLast.op = "navigate_to_invoice_page"
    /\ clientLast.pre.state = "LOGGED_IN"
    /\ session.state = "EXPIRED"
    /\ Len(lessons) = 2
    /\ exit_code = 1

C18_WitnessLessons ==
    /\ CalledWithoutLogin
    /\ clientLast.op = "get_lessons_for_month"
    /\ clientLast.message = "Not logged in"
    /\ lessons = <<>>

InitCB ==
    /\ now = 0
    /\ \E n \in 1..MaxThreshold, d \in 1..MaxTimeout : cb = CircuitBreaker(n, d)
    /\ cbLast = NoOp
    /\ streak = 0
    /\ opened_at = None
    /\ session = SessionManager
    /\ sessLast = NoSessionOp
    /\ RetryIdle
    /\ extraction = NoExtraction
    /\ result = NoResult
    /\ summary = NoSummary
    /\ form = NoForm

CbCall(fn) ==
    LET r == call(cb, now, fn)
    IN  /\ now + fn.duration <= MaxClock
        /\ cb' = r.cb
        /\ now' = r.now
        /\ cbLast' = [ op |-> "call", fn |-> fn.outcome,
                       fn_value |-> fn.value, raised |-> r.raised,
                       returned |-> r.returned, fn_calls |-> r.fn_calls,
                       pre |-> cb, pre_now |-> now, post_now |-> r.now,
                       reset_from |-> IF cbLast.op = "reset"
                                      THEN cbLast.pre.state ELSE "none" ]
        /\ streak' = NextStreak(streak, r)
        /\ opened_at' = NextOpenedAt(opened_at, cb, r)
        /\ UNCHANGED <<sessVars, retryVars, mainVars, clientLast>>

CbReset ==
    /\ cb' = reset(cb)
    /\ cbLast' = [ op |-> "reset", fn |-> "none", fn_value |-> NoValue,
                   raised |-> "none", returned |-> NoValue, fn_calls |-> 0,
                   pre |-> cb, pre_now |-> now, post_now |-> now,
                   reset_from |-> "none" ]
    /\ streak' = 0
    /\ opened_at' = None
    /\ UNCHANGED <<now, sessVars, retryVars, mainVars, clientLast>>

CbTick ==
    /\ now < MaxClock
    /\ now' = now + 1
    /\ UNCHANGED <<cbVars, sessVars, retryVars, mainVars, clientLast>>

NextCB ==
    \/ \E fn \in FnBehaviour : CbCall(fn)
    \/ CbReset
    \/ CbTick

SpecCB == InitCB /\ [][NextCB]_vars

(***************************************************************************)
(* C1: starting from CLOSED with failure_count 0 and failure_threshold     *)
(* N >= 1, after k consecutive calls whose function raises the configured  *)
(* exception category the breaker is still CLOSED (with failure_count k)   *)
(* while k < N, and is OPEN with failure_count N when k = N.               *)
(***************************************************************************)
C1_OpensAtThreshold ==
    /\ (streak /= None /\ streak < cb.failure_threshold)
          => (cb.state = "CLOSED" /\ cb.failure_count = streak)
    /\ streak = cb.failure_threshold
          => (cb.state = "OPEN" /\ cb.failure_count = cb.failure_threshold)

C1_Witness ==
    /\ cb.failure_threshold = 3
    /\ streak = 3
    /\ cb.state = "OPEN"
    /\ cbLast.pre.state = "CLOSED"
    /\ cbLast.pre.failure_count = 2

(***************************************************************************)
(* C2: a call made while the breaker is OPEN and less than the cooldown    *)
(* has elapsed since last_failure_time raises CircuitBreakerOpenError,     *)
(* does not invoke the function and leaves state, failure_count and        *)
(* last_failure_time unchanged.                                            *)
(***************************************************************************)
CallInCooldown ==
    /\ cbLast.op = "call"
    /\ cbLast.pre.state = "OPEN"
    /\ cbLast.pre_now - cbLast.pre.last_failure_time < cbLast.pre.timeout

C2_OpenBlocksCalls ==
    CallInCooldown =>
        /\ cbLast.raised = "CircuitBreakerOpenError"
        /\ cbLast.fn_calls = 0
        /\ cb = cbLast.pre

C2_Witness ==
    /\ CallInCooldown
    /\ cbLast.raised = "CircuitBreakerOpenError"
    /\ cbLast.pre_now > cbLast.pre.last_failure_time

(***************************************************************************)
(* C3: a call made while the breaker is OPEN and more than the cooldown    *)
(* has elapsed since last_failure_time invokes the function exactly once;  *)
(* if it returns, the breaker is CLOSED with failure_count 0 and the       *)
(* function's value is returned; if it raises the configured category,     *)
(* the breaker is OPEN again and that exception is raised.                 *)
(***************************************************************************)
CallAfterCooldown ==
    /\ cbLast.op = "call"
    /\ cbLast.pre.state = "OPEN"
    /\ cbLast.pre_now - cbLast.pre.last_failure_time > cbLast.pre.timeout

C3_TrialCall ==
    CallAfterCooldown =>
        /\ cbLast.fn_calls = 1
        /\ cbLast.fn = "returns" =>
              /\ cb.state = "CLOSED"
              /\ cb.failure_count = 0
              /\ cbLast.raised = "none"
              /\ cbLast.returned = cbLast.fn_value
        /\ cbLast.fn = "raises_expected" =>
              /\ cb.state = "OPEN"
              /\ cbLast.raised = "expected"

C3_Witness ==
    /\ CallAfterCooldown
    /\ cbLast.fn = "returns"
    /\ cb.state = "CLOSED"
    /\ cbLast.pre.failure_count = 3

InitSession ==
    /\ now = 0
    /\ cb = CircuitBreaker(1, 1)
    /\ cbLast = NoOp
    /\ streak = 0
    /\ opened_at = None
    /\ session = SessionManager
    /\ sessLast = NoSessionOp
    /\ RetryIdle
    /\ extraction = NoExtraction
    /\ result = NoResult
    /\ summary = NoSummary
    /\ form = NoForm

MarkLoggedIn ==
    /\ session' = mark_logged_in(session, now)
    /\ sessLast' = SessionObs("mark_logged_in",
                              SessionResult(session', TRUE, FALSE, ""),
                              session, now, "none")
    /\ clientLast' = NoClientOp
    /\ UNCHANGED <<now, cbVars, retryVars, mainVars>>

MarkLoggedOut ==
    /\ session' = mark_logged_out(session)
    /\ sessLast' = SessionObs("mark_logged_out",
                              SessionResult(session', TRUE, FALSE, ""),
                              session, now, "none")
    /\ clientLast' = NoClientOp
    /\ UNCHANGED <<now, cbVars, retryVars, mainVars>>

UpdateActivity ==
    /\ session' = update_activity(session, now)
    /\ sessLast' = SessionObs("update_activity",
                              SessionResult(session', TRUE, FALSE, ""),
                              session, now, "none")
    /\ clientLast' = NoClientOp
    /\ UNCHANGED <<now, cbVars, retryVars, mainVars>>

IsSessionValid(page) ==
    LET r == is_session_valid(session, now, page)
    IN  /\ session' = r.session
        /\ sessLast' = SessionObs("is_session_valid", r, session, now, page)
        /\ clientLast' = NoClientOp
        /\ UNCHANGED <<now, cbVars, retryVars, mainVars>>

RequireLogin(page) ==
    LET r == require_login(session, now, page)
    IN  /\ session' = r.session
        /\ sessLast' = SessionObs("require_login", r, session, now, page)
        /\ clientLast' = NoClientOp
        /\ UNCHANGED <<now, cbVars, retryVars, mainVars>>

SessionTick(d) ==
    /\ now + d <= MaxSessionClock
    /\ now' = now + d
    /\ sessLast' = NoSessionOp
    /\ clientLast' = NoClientOp
    /\ UNCHANGED <<cbVars, session, retryVars, mainVars>>

\* client.login on the client that owns this session
ClientLogin(fail_at) ==
    LET r == login(session, now, fail_at)
    IN  /\ session' = r.session
        /\ sessLast' = NoSessionOp
        /\ clientLast' = ClientObs("login", r.ok, r.message, r.navigated,
                                   session, now, r.screenshot)
        /\ UNCHANGED <<now, cbVars, retryVars, mainVars>>

NextSession ==
    \/ MarkLoggedIn
    \/ MarkLoggedOut
    \/ UpdateActivity
    \/ \E page \in PageCheck : IsSessionValid(page)
    \/ \E page \in PageCheck : RequireLogin(page)
    \/ \E d \in ClockSteps : SessionTick(d)
    \/ \E fail_at \in LoginFailPoint : ClientLogin(fail_at)

SpecSession == InitSession /\ [][NextSession]_vars

(***************************************************************************)
(* C4: require_login() returns success if and only if, when it is called,  *)
(* the state is LOGGED_IN and at most SESSION_TIMEOUT (30 minutes) have    *)
(* elapsed since last_activity; in every other case it returns a failure.  *)
(***************************************************************************)
C4_RequireLoginIff ==
    sessLast.op = "require_login" =>
        (sessLast.ok <=>
            /\ sessLast.pre.state = "LOGGED_IN"
            /\ sessLast.pre.last_activity /= None
            /\ sessLast.pre_now - sessLast.pre.last_activity <= SESSION_TIMEOUT)

C4_Witness ==
    /\ sessLast.op = "require_login"
    /\ sessLast.ok
    /\ sessLast.pre_now - sessLast.pre.last_activity = SESSION_TIMEOUT
    /\ sessLast.pre.login_time < sessLast.pre.last_activity

C4_WitnessExpired ==
    /\ sessLast.op = "require_login"
    /\ ~sessLast.ok
    /\ sessLast.pre.state = "LOGGED_IN"
    /\ sessLast.pre_now - sessLast.pre.last_activity = SESSION_TIMEOUT + 1

(***************************************************************************)
(* C19: a failing require_login() says which condition failed: when the    *)
(* state is not LOGGED_IN the message is "Not logged in" and the session   *)
(* is unchanged; when the state is LOGGED_IN and more than 30 minutes have *)
(* passed since last_activity the message is "Session expired" and the     *)
(* state becomes EXPIRED.                                                  *)
(***************************************************************************)
C19_FailureSaysWhy ==
    (sessLast.op = "require_login" /\ ~sessLast.ok) =>
        /\ sessLast.pre.state /= "LOGGED_IN" =>
              /\ sessLast.message = "Not logged in"
              /\ session = sessLast.pre
        /\ (/\ sessLast.pre.state = "LOGGED_IN"
            /\ sessLast.pre_now - sessLast.pre.last_activity > SESSION_TIMEOUT) =>
              /\ sessLast.message = "Session expired"
              /\ session = [sessLast.pre EXCEPT !.state = "EXPIRED"]

C19_Witness ==
    /\ sessLast.op = "require_login"
    /\ ~sessLast.ok
    /\ sessLast.pre.state = "LOGGED_IN"
    /\ sessLast.message = "Session expired"
    /\ session.state = "EXPIRED"

C19_WitnessNotLoggedIn ==
    /\ sessLast.op = "require_login"
    /\ ~sessLast.ok
    /\ sessLast.pre.state = "EXPIRED"
    /\ sessLast.message = "Not logged in"

(***************************************************************************)
(* C20: is_session_valid() on a session that is LOGGED_IN and within its   *)
(* inactivity window decides by the page check: when a login form is found *)
(* it returns success(False) and sets the state to NOT_LOGGED_IN; when the *)
(* page check is inconclusive it returns success(False) and sets the state *)
(* to UNKNOWN.                                                             *)
(***************************************************************************)
ValidityCheckedWhileLoggedIn ==
    /\ sessLast.op = "is_session_valid"
    /\ sessLast.pre.state = "LOGGED_IN"
    /\ sessLast.pre_now - sessLast.pre.last_activity <= SESSION_TIMEOUT

C20_PageCheckDecides ==
    ValidityCheckedWhileLoggedIn =>
        /\ sessLast.page = "login_form" =>
              /\ sessLast.ok /\ ~sessLast.value
              /\ session.state = "NOT_LOGGED_IN"
        /\ sessLast.page = "no_login_form" =>
              /\ sessLast.ok /\ ~sessLast.value
              /\ session.state = "UNKNOWN"

(***************************************************************************)
(* C21: when login() returns success the session is LOGGED_IN with         *)
(* login_time and last_activity set to the time of the login; when it      *)
(* returns a failure at any step, the session state and its timestamps are *)
(* exactly as before the call.                                             *)
(***************************************************************************)
C21_LoginFrame ==
    clientLast.op = "login" =>
        /\ clientLast.ok =>
              session = [ state |-> "LOGGED_IN",
                          login_time |-> clientLast.pre_now,
                          last_activity |-> clientLast.pre_now ]
        /\ ~clientLast.ok => session = clientLast.pre

C21_Witness ==
    /\ clientLast.op = "login"
    /\ ~clientLast.ok
    /\ clientLast.message = "Login failed - credentials may be incorrect"
    /\ clientLast.pre.state = "LOGGED_IN"
    /\ clientLast.pre_now > clientLast.pre.last_activity
    /\ session = clientLast.pre

C21_WitnessSuccess ==
    /\ clientLast.op = "login"
    /\ clientLast.ok
    /\ clientLast.pre.state = "EXPIRED"
    /\ session.login_time = now
    /\ now > 0

(***************************************************************************)
(* C22: every failing step of the authentication flow (navigation to the   *)
(* base URL, opening the login control, credential input, submit click,    *)
(* visible error indicator) captures a screenshot before login() returns   *)
(* its failure.                                                            *)
(***************************************************************************)
C22_LoginFailureScreenshot ==
    (/\ clientLast.op = "login"
     /\ ~clientLast.ok
     /\ clientLast.navigated) => clientLast.screenshot /= "none"

(***************************************************************************)
(* C23: a failed trial call resets the cooldown clock: after a trial in    *)
(* HALF_OPEN raises the configured exception category the breaker is OPEN  *)
(* and last_failure_time is the time of that failure, and a call is        *)
(* rejected with CircuitBreakerOpenError while no more than the cooldown   *)
(* has elapsed since last_failure_time, however long ago the circuit first *)
(* opened.                                                                 *)
(***************************************************************************)
TrialFailed ==
    /\ CallAfterCooldown
    /\ cbLast.raised = "expected"

C23_TrialFailureResetsCooldown ==
    /\ TrialFailed =>
          /\ cb.state = "OPEN"
          /\ cb.last_failure_time = cbLast.post_now
          /\ cb.last_failure_time >= cbLast.pre_now
          /\ cb.last_failure_time > opened_at
    /\ (/\ cbLast.op = "call"
        /\ cbLast.pre.state = "OPEN"
        /\ cbLast.pre_now - cbLast.pre.last_failure_time <= cbLast.pre.timeout) =>
          /\ cbLast.raised = "CircuitBreakerOpenError"
          /\ cbLast.fn_calls = 0
    /\ cb.state = "OPEN" => cb.last_failure_time >= opened_at

C23_Witness ==
    /\ cbLast.op = "call"
    /\ cbLast.raised = "CircuitBreakerOpenError"
    /\ opened_at /= None
    /\ opened_at < cb.last_failure_time
    /\ cbLast.pre_now - opened_at > cb.timeout
    /\ cbLast.pre_now > cb.last_failure_time

\* A call made while the circuit is CLOSED.
CallInClosed ==
    /\ cbLast.op = "call"
    /\ cbLast.pre.state = "CLOSED"

\* C24: in CLOSED the function is invoked; when it returns, failure_count is
\* 0; when it raises the configured exception category, failure_count grows
\* by exactly 1 and last_failure_time is the time of that failure; when it
\* raises any other exception, that exception is re-raised and failure_count,
\* last_failure_time and state are what they were before the call.
C24_CountingInClosed ==
    CallInClosed =>
        /\ cbLast.fn_calls = 1
        /\ cbLast.fn = "returns" =>
              /\ cbLast.raised = "none"
              /\ cb.failure_count = 0
        /\ cbLast.fn = "raises_expected" =>
              /\ cbLast.raised = "expected"
              /\ cb.failure_count = cbLast.pre.failure_count + 1
              /\ cb.last_failure_time = cbLast.post_now
        /\ cbLast.fn = "raises_other" =>
              /\ cbLast.raised = "other"
              /\ cb.failure_count = cbLast.pre.failure_count
              /\ cb.last_failure_time = cbLast.pre.last_failure_time
              /\ cb.state = cbLast.pre.state

\* A returning call in CLOSED clears failures counted before it.
C24_Witness ==
    /\ CallInClosed
    /\ cbLast.fn = "returns"
    /\ cbLast.pre.failure_count > 0
    /\ cb.failure_count = 0

\* An exception outside the configured category after counted failures.
C24_WitnessOther ==
    /\ CallInClosed
    /\ cbLast.fn = "raises_other"
    /\ cbLast.pre.failure_count > 0
    /\ cbLast.pre.last_failure_time /= None
    /\ cbLast.post_now > cbLast.pre.last_failure_time

\* A counted failure that does not yet open the circuit.
C24_WitnessCounted ==
    /\ CallInClosed
    /\ cbLast.fn = "raises_expected"
    /\ cbLast.pre.failure_count > 0
    /\ cb.state = "CLOSED"

\* C25: reset() leaves state CLOSED, failure_count 0 and last_failure_time
\* empty whatever the state and count before it, and the call that follows a
\* reset invokes the wrapped function instead of being rejected.
C25_ResetForcesClosed ==
    /\ cbLast.op = "reset" =>
          /\ cb.state = "CLOSED"
          /\ cb.failure_count = 0
          /\ cb.last_failure_time = None
    /\ (cbLast.op = "call" /\ cbLast.reset_from /= "none") =>
          /\ cbLast.pre.state = "CLOSED"
          /\ cbLast.pre.failure_count = 0
          /\ cbLast.pre.last_failure_time = None
          /\ cbLast.fn_calls = 1
          /\ cbLast.raised /= "CircuitBreakerOpenError"

\* A call passed through right after a reset of an OPEN circuit that was
\* still inside its cooldown.
C25_Witness ==
    /\ cbLast.op = "call"
    /\ cbLast.reset_from = "OPEN"
    /\ cbLast.fn_calls = 1
    /\ opened_at = None \/ opened_at = cbLast.post_now

C25_WitnessOpen ==
    /\ cbLast.op = "reset"
    /\ cbLast.pre.state = "OPEN"
    /\ cbLast.pre.failure_count > 1
    /\ cbLast.pre_now - cbLast.pre.last_failure_time <= cbLast.pre.timeout

C25_WitnessHalfOpen ==
    /\ cbLast.op = "reset"
    /\ cbLast.pre.state = "HALF_OPEN"
    /\ cbLast.pre.failure_count > 0

C25_WitnessClosed ==
    /\ cbLast.op = "reset"
    /\ cbLast.pre.state = "CLOSED"
    /\ cbLast.pre.failure_count > 0

\* The duplicate filter of main() has run on the retrieved records.
DuplicatesFiltered ==
    \/ pc \in {"loop", "in_retry", "report"}
    \/ pc = "done" /\ exit_code = 0 /\ lessons /= <<>>

InToAdd(lesson) == \E j \in 1..Len(to_add) : to_add[j] = lesson

SameDate(item, lesson) == item.date = lesson.date
SameStudentId(item, lesson) == item.student_id = lesson.student_id
SameStudentName(item, lesson) == item.student_name = lesson.student_name

\* C26: a retrieved record is held back as a duplicate exactly when some
\* existing invoice item has its date and either its student id or its
\* student name; a record is kept when the existing list is empty or no item
\* has its date.
C26_DuplicateIff ==
    DuplicatesFiltered =>
        \A i \in 1..Len(lessons) :
            /\ ~InToAdd(lessons[i]) <=>
                  \E k \in 1..Len(existing_invoices) :
                      /\ SameDate(existing_invoices[k], lessons[i])
                      /\ \/ SameStudentId(existing_invoices[k], lessons[i])
                         \/ SameStudentName(existing_invoices[k], lessons[i])
            /\ existing_invoices = <<>> => InToAdd(lessons[i])
            /\ (\A k \in 1..Len(existing_invoices) :
                    ~SameDate(existing_invoices[k], lessons[i]))
                  => InToAdd(lessons[i])

\* One record matched by id under another name, one matched by name under
\* another id, and one kept although an item has its student id on another
\* date.
C26_Witness ==
    /\ DuplicatesFiltered
    /\ Len(lessons) = 4
    /\ existing_invoices = <<ItemSameId, ItemSameName>>
    /\ ~InToAdd(lessons[1])
    /\ ~SameStudentName(ItemSameId, lessons[1])
    /\ ~InToAdd(lessons[4])
    /\ ~SameStudentId(ItemSameName, lessons[4])
    /\ InToAdd(lessons[3])
    /\ SameStudentId(ItemSameId, lessons[3])

C26_WitnessEmpty ==
    /\ DuplicatesFiltered
    /\ existing_invoices = <<>>
    /\ Len(to_add) = 4

(***************************************************************************)
(* Card extraction of get_lessons_for_month on a page of lesson cards.     *)
(***************************************************************************)
ExtractYears == {2025}
ExtractMonths == {9, 10}
BatchSizes == {0, 1, 2}

InitExtract ==
    /\ now = 0
    /\ cb = CircuitBreaker(1, 1)
    /\ cbLast = NoOp
    /\ streak = 0
    /\ opened_at = None
    /\ session = SessionManager
    /\ sessLast = NoSessionOp
    /\ RetryIdle
    /\ result = NoResult
    /\ summary = NoSummary
    /\ form = NoForm
    /\ \E cs \in CardLists, y \in ExtractYears, m \in ExtractMonths,
          ai \in BOOLEAN, bs \in BatchSizes :
          extraction = [ NoExtraction EXCEPT !.status = "ready",
                                             !.cards = cs,
                                             !.year = y,
                                             !.month = m,
                                             !.use_ai_extraction = ai,
                                             !.ai_batch_size = bs ]

\* get_lessons_for_month from the card texts on: extraction, month filter,
\* removal of duplicates, Result.success(unique_lessons).  The page is read
\* once, and once more by the same client after a call that switched the
\* client to pattern extraction.
ExtractLessons(failed) ==
    LET e == extraction
        x == extract_lessons(e.cards, e.year, e.use_ai_extraction,
                             e.ai_batch_size, failed)
        filtered_lessons == filter_by_month(x.lessons, e.year, e.month)
    IN  /\ \/ e.status = "ready"
           \/ e.status = "done" /\ e.ai_raised
        /\ failed \subseteq Batches(e.cards, e.ai_batch_size)
        /\ ~e.use_ai_extraction => failed = {}
        /\ extraction' = [ e EXCEPT !.status = "done",
                                    !.used_ai = e.use_ai_extraction,
                                    !.use_ai_extraction = x.use_ai_extraction,
                                    !.failed = failed,
                                    !.ai_raised = x.ai_raised,
                                    !.extracted = x.lessons,
                                    !.value =
                                        remove_duplicates(filtered_lessons) ]
        /\ UNCHANGED <<now, cbVars, sessVars, retryVars, clientLast, pc, args,
                       lessons, existing_invoices, to_add, idx, added_lessons,
                       failed_lessons, submitted, browser, report, exit_code,
                       result, summary, form>>

NextExtract ==
    \E failed \in SUBSET Batches(extraction.cards, extraction.ai_batch_size) :
        ExtractLessons(failed)

SpecExtract == InitExtract /\ [][NextExtract]_vars

Extracted == extraction.status = "done"

InRequestedMonth(l) ==
    /\ SubSeq(l.date, 1, 4) = Year4(extraction.year)
    /\ SubSeq(l.date, 6, 7) = Pad2(extraction.month)

\* Positions of the extracted list whose record is in the requested month
\* and has no earlier in-month record with the same (date, student_name).
FirstOccurrences ==
    { i \in 1..Len(extraction.extracted) :
        /\ InRequestedMonth(extraction.extracted[i])
        /\ \A j \in 1..(i - 1) :
              InRequestedMonth(extraction.extracted[j]) =>
                  LessonKey(extraction.extracted[j])
                      /= LessonKey(extraction.extracted[i]) }

\* C27: the list returned has only records of the requested year-month, no
\* two with the same (date, student_name), and it is the extracted list
\* restricted to the first occurrence of each in-month (date, student_name),
\* in the order of extraction.
C27_FilteredUniqueInOrder ==
    Extracted =>
        LET v == extraction.value
            raw == extraction.extracted
        IN  /\ \A i \in 1..Len(v) : InRequestedMonth(v[i])
            /\ \A i, j \in 1..Len(v) :
                  i /= j => LessonKey(v[i]) /= LessonKey(v[j])
            /\ Len(v) = Cardinality(FirstOccurrences)
            /\ \E f \in [1..Len(v) -> 1..Len(raw)] :
                  /\ \A k \in 1..Len(v) :
                        /\ f[k] \in FirstOccurrences
                        /\ v[k] = raw[f[k]]
                  /\ \A k, l \in 1..Len(v) : k < l => f[k] < f[l]

\* A record of another month, then two records of the month with the same
\* (date, student_name) that differ otherwise: only the first of the two is
\* returned.
C27_Witness ==
    /\ Extracted
    /\ extraction.month = 10
    /\ Len(extraction.extracted) = 3
    /\ Len(extraction.value) = 1
    /\ extraction.value[1] = extraction.extracted[2]
    /\ ~InRequestedMonth(extraction.extracted[1])
    /\ LessonKey(extraction.extracted[3]) = LessonKey(extraction.extracted[2])
    /\ extraction.extracted[3] /= extraction.extracted[2]

\* The repeated record lies between two kept ones.
C27_WitnessOrder ==
    /\ Extracted
    /\ Len(extraction.extracted) = 3
    /\ Len(extraction.value) = 2
    /\ extraction.value[1] = extraction.extracted[1]
    /\ extraction.value[2] = extraction.extracted[3]
    /\ LessonKey(extraction.extracted[2]) = LessonKey(extraction.extracted[1])

\* A call with the natural-language strategy in which the API call of some
\* batch raised.
BatchFailed ==
    /\ Extracted
    /\ extraction.used_ai
    /\ extraction.failed /= {}

\* What the pattern extractor yields for card i of the page.
PatternRecord(i) ==
    valid_lessons(<<extract_lesson_from_card(extraction.cards[i], i - 1,
                                             extraction.year)>>)

\* C29: with the natural-language strategy enabled and the API call of a
\* batch failing, every in-month record the pattern extractor yields for a
\* card of the failed batch is represented in the returned list.
C29_RuntimeErrorFallsBack ==
    BatchFailed =>
        \A i \in 1..Len(extraction.cards) :
            (/\ BatchOf(i - 1, extraction.ai_batch_size) \in extraction.failed
             /\ PatternRecord(i) /= <<>>
             /\ InRequestedMonth(PatternRecord(i)[1])) =>
                \E k \in 1..Len(extraction.value) :
                    LessonKey(extraction.value[k])
                        = LessonKey(PatternRecord(i)[1])

(***************************************************************************)
(* Results made by Result.success, Result.failure and Result.map.          *)
(***************************************************************************)
InitResult ==
    /\ now = 0
    /\ cb = CircuitBreaker(1, 1)
    /\ cbLast = NoOp
    /\ streak = 0
    /\ opened_at = None
    /\ session = SessionManager
    /\ sessLast = NoSessionOp
    /\ RetryIdle
    /\ extraction = NoExtraction
    /\ result = NoResult
    /\ summary = NoSummary
    /\ form = NoForm

ResultFrame ==
    UNCHANGED <<now, cbVars, sessVars, retryVars, clientLast, pc, args,
                lessons, existing_invoices, to_add, idx, added_lessons,
                failed_lessons, submitted, browser, report, exit_code,
                extraction, summary, form>>

\* Result.success(value, message)
MakeSuccess(value, message) ==
    /\ result' = ResultObs("success", success(value, message), NoResult.pre,
                           NoFn)
    /\ ResultFrame

\* Result.failure(message, error)
MakeFailure(message, error) ==
    /\ result' = ResultObs("failure", failure(message, error), NoResult.pre,
                           NoFn)
    /\ ResultFrame

\* result.map(func) on the Result made last
Map(func) ==
    /\ result.op /= "none"
    /\ is_success(result.r) => result.r.value + func.add <= MaxValue
    /\ result' = ResultObs("map", map(result.r, func), result.r, func)
    /\ ResultFrame

NextResult ==
    \/ \E v \in 0..MaxValue, msg \in Messages \cup {NoMessage} :
          MakeSuccess(v, msg)
    \/ \E msg \in Messages, e \in Errors \cup {NoError} : MakeFailure(msg, e)
    \/ \E func \in MapFn : Map(func)

SpecResult == InitResult /\ [][NextResult]_vars

(***************************************************************************)
(* Choices made while the invoice-item form is filled (client.py).         *)
(*                                                                         *)
(* A label is a sequence of characters; " " is the space, "u3000" the      *)
(* ideographic space U+3000 and "nl" a line feed.  An option list is the   *)
(* list of the texts of the options the custom student dropdown shows, in  *)
(* page order.                                                             *)
(***************************************************************************)
MaxOptions == 3

Whitespace == {" ", "u3000", "nl"}

\* str.replace(ch, "")
replace_with_empty(label, ch) == SelectSeq(label, LAMBDA c : c /= ch)

RECURSIVE lstrip(_)
lstrip(label) ==
    IF label /= <<>> /\ Head(label) \in Whitespace
    THEN lstrip(Tail(label))
    ELSE label

RECURSIVE rstrip(_)
rstrip(label) ==
    IF label /= <<>> /\ label[Len(label)] \in Whitespace
    THEN rstrip(SubSeq(label, 1, Len(label) - 1))
    ELSE label

\* str.strip()
strip(label) == rstrip(lstrip(label))

\* _normalize_student_label: label.replace(" ", "").replace("　", "").strip()
normalize_student_label(label) ==
    strip(replace_with_empty(replace_with_empty(label, " "), "u3000"))

\* the loop over the options of _select_student_custom_dropdown leaves the
\* loop at the first option whose normalized text equals the normalized
\* student name or contains it; 0 stands for None
candidate_option(options, student_name) ==
    LET normalized_target == normalize_student_label(student_name)
        hit(i) ==
            LET normalized_text == normalize_student_label(strip(options[i]))
            IN  /\ normalized_target /= <<>>
                /\ \/ normalized_text = normalized_target
                   \/ Contains(normalized_target, normalized_text)
        hits == { i \in 1..Len(options) : hit(i) }
    IN  IF hits = {} THEN 0
        ELSE CHOOSE i \in hits : \A j \in hits : i <= j

\* the first option the loop passed without a match; 0 stands for None
fallback_option(options, student_name) ==
    IF options /= <<>> /\ candidate_option(options, student_name) /= 1
    THEN 1 ELSE 0

\* target_option = candidate_option or fallback_option
target_option(options, student_name) ==
    IF candidate_option(options, student_name) /= 0
    THEN candidate_option(options, student_name)
    ELSE fallback_option(options, student_name)

\* Texts of dropdown options and student names of the lessons.
OptionTexts ==
    { <<"a", "b">>,                  \* the name, written without a space
      <<"a", " ", "b", " ", "c">>,   \* a longer name that contains it
      <<"c", "u3000", "d">>,         \* another name
      <<>> }                         \* an option without text

StudentNames ==
    { <<"a", " ", "b">>, <<"a", "u3000", "b", "nl">>, <<"d", "e">>, <<>> }

OptionLists ==
    UNION { [1..n -> OptionTexts] : n \in 1..MaxOptions }

\* _map_category_to_value: the keys of category_map with their dropdown
\* values, in the order of the dict
category_map ==
    << <<CatDedicated, 1>>,
       <<CatDedicatedAround, 2>>,
       << <<"shitsumon_taiou", "tantou_seito">>, 3>>,
       << <<"curriculum_sakusei">>, 4>>,
       << <<"senzoku", "lesson", "cancel">>, 5>>,
       << <<"catch_up">>, 6>>,
       << <<"consul_soudan">>, 7>>,
       << <<"mentoring">>, 8>>,
       << <<"shitsumon_taiou", "q_and_a">>, 9>>,
       << <<"uneigawa", "irai_taiou">>, 10>>,
       << <<"shoseki_kyouzai_hiyou">>, 11>>,
       << <<"referral_incentive">>, 12>>,
       << <<"sonota">>, 13>>,
       << <<"kyouzai_kaihatsu">>, 14>>,
       <<CatSpot, 15>>,
       << <<"timeline_toukou">>, 16>>,
       << <<"kadai_review", "jikyuusei">>, 17>>,
       << <<"reskill_college", "taiou">>, 18>>,
       << <<"shigotoru", "taiou">>, 19>>,
       << <<"kadai_review", "tankasei">>, 20>>,
       << <<"houjingawa", "irai_taiou">>, 21>>,
       << <<"doujou", "lesson">>, 22>>,
       << <<"jouchuu", "lesson", "taiou">>, 23>>,
       << <<"doujou", "contents_kaihatsu">>, 24>>,
       << <<"tenshoku_community", "taiou">>, 25>>,
       << <<"koukai_kouza", "taiou">>, 26>> >>

Categories == { category_map[i][1] : i \in 1..Len(category_map) }

InitForm ==
    /\ now = 0
    /\ cb = CircuitBreaker(1, 1)
    /\ cbLast = NoOp
    /\ streak = 0
    /\ opened_at = None
    /\ session = SessionManager
    /\ sessLast = NoSessionOp
    /\ RetryIdle
    /\ extraction = NoExtraction
    /\ result = NoResult
    /\ summary = NoSummary
    /\ \/ \E options \in OptionLists, student_name \in StudentNames :
             form = [ NoForm EXCEPT !.op = "student_ready",
                                    !.options = options,
                                    !.student_name = student_name ]
       \/ \E category \in Categories \cup {<<>>} :
             form = [ NoForm EXCEPT !.op = "category_ready",
                                    !.category = category ]

FormFrame ==
    UNCHANGED <<now, cbVars, sessVars, retryVars, pc, args, lessons,
                existing_invoices, to_add, idx, added_lessons,
                failed_lessons, submitted, browser, report, exit_code,
                clientLast, extraction, result, summary>>

\* _select_student_custom_dropdown, from the option list to the click
SelectStudentCustomDropdown ==
    /\ form.op = "student_ready"
    /\ form' = [ form EXCEPT
                   !.op = "student",
                   !.target_option =
                       target_option(form.options, form.student_name) ]
    /\ FormFrame

\* auto_date_mode = self._category_uses_auto_date(lesson.get("category", ""))
AutoDateMode ==
    /\ form.op = "category_ready"
    /\ form' = [ form EXCEPT
                   !.op = "category",
                   !.auto_date = category_uses_auto_date(form.category) ]
    /\ FormFrame

NextForm ==
    \/ SelectStudentCustomDropdown
    \/ AutoDateMode

SpecForm == InitForm /\ [][NextForm]_vars

ResultMade == result.op /= "none"

\* C28: a success never carries an error, and a failure carries exactly the
\* error it was made with: none when Result.failure was called without an
\* exception, the failure's own error when map passes a failure on, and the
\* raised exception when the function given to map raises.
C28_SuccessHasNoError ==
    ResultMade =>
        /\ is_success(result.r) /= is_failure(result.r)
        /\ is_success(result.r) => result.r.error = NoError
        /\ result.op = "success" => is_success(result.r)
        /\ result.op = "failure" => is_failure(result.r)
        /\ (result.op = "map" /\ is_failure(result.pre)) =>
              /\ is_failure(result.r)
              /\ result.r.error = result.pre.error
              /\ result.r.message = result.pre.message
        /\ (result.op = "map" /\ is_success(result.pre)) =>
              IF result.fn.raises /= NoError
              THEN /\ is_failure(result.r)
                   /\ result.r.error = result.fn.raises
              ELSE is_success(result.r)

\* A failure made with an exception and passed through map.
C28_Witness ==
    /\ result.op = "map"
    /\ is_failure(result.pre)
    /\ result.pre.error /= NoError
    /\ result.r.error = result.pre.error

\* Result.failure("Something went wrong") without an exception.
C28_WitnessNoException ==
    /\ result.op = "failure"
    /\ is_failure(result.r)
    /\ result.r.error = NoError

\* C28 as stated: a Result is a success if and only if its error is empty.
C28_SuccessIffNoError ==
    ResultMade => (is_success(result.r) <=> result.r.error = NoError)

\* C30: the skipped count the run prints is the number of retrieved records
\* held back as duplicates, |lessons| - |to_add|, and is not negative.
C30_SkippedCount ==
    summary.shown =>
        /\ summary.skipped = Len(lessons) - Len(to_add)
        /\ summary.skipped >= 0

\* C31: when a call has finished the circuit is CLOSED or OPEN, never
\* HALF_OPEN, whatever the wrapped function did; so a call that follows a
\* trial call is not passed through on the same cooldown expiry.
C31_OneTrialCall ==
    /\ cbLast.op = "call" => cb.state \in {"CLOSED", "OPEN"}
    /\ (/\ cbLast.op = "call"
        /\ cbLast.pre.state = "HALF_OPEN") => cbLast.fn_calls = 0

\* C32: every change of the session state follows the diagram: LOGGED_IN is
\* entered only by mark_logged_in(), and EXPIRED and UNKNOWN are entered only
\* from LOGGED_IN.
C32_StateDiagram ==
    [][ /\ (session'.state = "LOGGED_IN" /\ session.state /= "LOGGED_IN") =>
              session' = mark_logged_in(session, now)
        /\ (/\ session'.state \in {"EXPIRED", "UNKNOWN"}
            /\ session'.state /= session.state) =>
              session.state = "LOGGED_IN" ]_vars

\* C33: the steps of one attempt follow LOCATE_TRIGGER, MODAL_OPEN,
\* FIELDS_FILLED, SAVED | ABORTED: the modal is detected only after the
\* trigger click, the fields are filled only in a detected modal, the save
\* button is clicked only when the required fields are filled, and the
\* attempt ends with a success result (the save click went through, or the
\* dry run stopped at the filled form) or else with a failure result and no
\* successful save click.
C33_AttemptOrder ==
    (attemptLast /= NoAttempt) =>
        /\ attemptLast.modal_detected => attemptLast.trigger_clicked
        /\ attemptLast.category_selected => attemptLast.modal_detected
        /\ attemptLast.duration_set => attemptLast.category_selected
        /\ attemptLast.unit_price_set => attemptLast.duration_set
        /\ attemptLast.save_attempted =>
              /\ attemptLast.trigger_clicked
              /\ attemptLast.modal_detected
              /\ attemptLast.unit_price_set
        /\ attemptLast.save_clicked => attemptLast.save_attempted
        /\ attemptLast.ok <=>
              /\ attemptLast.unit_price_set
              /\ (attemptLast.save_clicked \/ retry.dry_run)
        /\ attemptLast.ok <=>
              attemptLast.message \in
                 { Msg("Invoice item saved"),
                   Msg("Invoice item form filled (not submitted)") }

C33_Witness ==
    /\ Len(retry.oks) = 3
    /\ ~retry.oks[1]
    /\ ~retry.oks[2]
    /\ attemptLast.save_clicked
    /\ attemptLast.ok

\* C34: every click of the add-item trigger happens while the modal is
\* closed: an attempt whose trigger click goes through starts on a page
\* without an open modal, also after an earlier attempt was aborted with
\* the modal open.
C34_TriggerOnClosedModal ==
    [][ (/\ Len(retry'.oks) > Len(retry.oks)
         /\ attemptLast'.trigger_clicked) => ~modal_open ]_vars

\* C35: whenever an attempt clicks the save button, a date was put into the
\* form in that attempt: by the date input for a category without
\* auto-derived date, by a selection in the dependent lesson dropdown for a
\* category with auto-derived date.
C35_SaveHasDate ==
    attemptLast.save_attempted =>
        IF category_uses_auto_date(retry.lesson.category)
        THEN attemptLast.lesson_selected
        ELSE attemptLast.date_input

\* C36: the option chosen in the custom student dropdown is the best match
\* over the whole list: an option equal to the normalized student name if
\* there is one, else the first option that contains the name, else the
\* first option.
C36_BestMatch ==
    form.op = "student" =>
        LET target == normalize_student_label(form.student_name)
            text(i) == normalize_student_label(form.options[i])
            exact == { i \in 1..Len(form.options) :
                          target /= <<>> /\ text(i) = target }
            partial == { i \in 1..Len(form.options) :
                            target /= <<>> /\ Contains(target, text(i)) }
        IN  IF exact /= {} THEN form.target_option \in exact
            ELSE IF partial /= {}
            THEN /\ form.target_option \in partial
                 /\ \A i \in partial : form.target_option <= i
            ELSE form.target_option = 1

\* C37: for every category of the category map the manual date entry is
\* skipped if and only if the category is the dedicated lesson or the
\* dedicated lesson before/after support.
C37_AutoDateCategories ==
    (form.op = "category" /\ form.category \in Categories) =>
        (form.auto_date <=>
            form.category \in {CatDedicated, CatDedicatedAround})

\* C38: an attempt whose save click went through returns the success
\* "Invoice item saved" and ends the retry loop, whether or not the modal is
\* gone afterwards; a modal that is still there only makes the close wait
\* longer (0.3 s, plus the 3 s left of the 5 s budget).
C38_SavedIsSuccess ==
    attemptLast.save_clicked =>
        /\ attemptLast.ok
        /\ attemptLast.message = Msg("Invoice item saved")
        /\ attemptLast.screenshot = "none"
        /\ attemptLast.close_wait = IF modal_open THEN 33 ELSE 3
        /\ retry.status = "returned"
        /\ retry.ok
        /\ retry.saves = 1

C38_Witness ==
    /\ attemptLast.save_clicked
    /\ modal_open
    /\ attemptLast.close_wait = 33
    /\ Len(retry.oks) = 2
    /\ retry.status = "returned"

\* C39: for failure_threshold >= 1, in every state reached through call()
\* and reset() the circuit is CLOSED if and only if failure_count is below
\* failure_threshold, and while it is OPEN or HALF_OPEN last_failure_time
\* is set.
C39_StateMatchesCount ==
    cb.failure_threshold >= 1 =>
        /\ cb.state = "CLOSED" <=> cb.failure_count < cb.failure_threshold
        /\ cb.state \in {"OPEN", "HALF_OPEN"} => cb.last_failure_time /= None
        /\ cb.state \in {"CLOSED", "OPEN", "HALF_OPEN"}

\* a trial call failed in the configured category, which took the count
\* above the threshold, and a later trial call raised another exception
C39_Witness ==
    /\ cb.state = "HALF_OPEN"
    /\ cb.failure_count > cb.failure_threshold
    /\ cb.failure_threshold >= 2
    /\ cbLast.op = "call"
    /\ cbLast.raised = "other"

====
